---- MODULE Spec2Model ----
(***************************************************************************)
(* Conversation and intent orchestration of the multi-tenant messaging     *)
(* platform: the Meta webhook path (handleMetaMessage), the dashboard      *)
(* send-message path, order extraction (maybeCreateOrderFromConversation), *)
(* the operator endpoints and the AI gateway throttle.                     *)
(*                                                                         *)
(* Every await of a handler is a suspension point, so a handler is a       *)
(* sequence of steps, one per storage or backend call; between two steps   *)
(* of one request any step of another request may run.                     *)
(*                                                                         *)
(* Message contents are JavaScript strings.  A string is kept in the state *)
(* as a TLA+ string and is decoded to its sequence of characters (Chars)   *)
(* wherever the code looks inside it (toLowerCase, includes, trim, match). *)
(***************************************************************************)
EXTENDS Integers, Sequences, FiniteSets, TLC

\* ------------------------------------------------------------ strings

\* The characters of the string literals the model uses.
Chars(s) ==
  CASE s = "buy 3 units Widget" ->
       <<"b","u","y"," ","3"," ","u","n","i","t","s"," ","W","i","d","g","e","t">>
    [] s = "buy widget" ->
       <<"b","u","y"," ","w","i","d","g","e","t">>
    [] s = "buy gadget" ->
       <<"b","u","y"," ","g","a","d","g","e","t">>
    [] s = "I want to order 3 widgets, name is Sara, phone is 555-1234" ->
       <<"I"," ","w","a","n","t"," ","t","o"," ","o","r","d","e","r"," ","3"," ","w","i","d","g","e","t","s",","," ","n","a","m","e"," ","i","s"," ","S","a","r","a",","," ","p","h","o","n","e"," ","i","s"," ","5","5","5","-","1","2","3","4">>
    [] s = "buy 0 units widget" ->
       <<"b","u","y"," ","0"," ","u","n","i","t","s"," ","w","i","d","g","e","t">>
    [] s = "processing your order" ->
       <<"p","r","o","c","e","s","s","i","n","g"," ","y","o","u","r"," ","o","r","d","e","r">>
    [] s = "I want to order but can I talk to a human" ->
       <<"I"," ","w","a","n","t"," ","t","o"," ","o","r","d","e","r"," ","b","u","t"," ","c","a","n"," ","I"," ","t","a","l","k"," ","t","o"," ","a"," ","h","u","m","a","n">>
    [] s = "BOOK with an AGENT" ->
       <<"B","O","O","K"," ","w","i","t","h"," ","a","n"," ","A","G","E","N","T">>
    [] s = "buy and book" ->
       <<"b","u","y"," ","a","n","d"," ","b","o","o","k">>
    [] s = "reserve a table" ->
       <<"r","e","s","e","r","v","e"," ","a"," ","t","a","b","l","e">>
    [] s = "hello there" ->
       <<"h","e","l","l","o"," ","t","h","e","r","e">>
    [] s = "u0637u0644u0628 u062Fu0639u0645" ->
       <<"u0637","u0644","u0628"," ","u062F","u0639","u0645">>
    [] s = "yes order it" ->
       <<"y","e","s"," ","o","r","d","e","r"," ","i","t">>
    [] s = "hi widget" ->
       <<"h","i"," ","w","i","d","g","e","t">>
    [] s = "human please" ->
       <<"h","u","m","a","n"," ","p","l","e","a","s","e">>
    [] s = " " ->
       <<" ">>
    [] s = "Order confirmed" ->
       <<"O","r","d","e","r"," ","c","o","n","f","i","r","m","e","d">>
    [] s = "We have Widget" ->
       <<"W","e"," ","h","a","v","e"," ","W","i","d","g","e","t">>
    [] s = "" ->
       <<>>
    [] s = "I apologize, I'm having trouble responding right now. Please try again." ->
       <<"I"," ","a","p","o","l","o","g","i","z","e",","," ","I","'","m"," ","h","a","v","i","n","g"," ","t","r","o","u","b","l","e"," ","r","e","s","p","o","n","d","i","n","g"," ","r","i","g","h","t"," ","n","o","w","."," ","P","l","e","a","s","e"," ","t","r","y"," ","a","g","a","i","n",".">>
    [] s = "I apologize, I'm experiencing technical difficulties. A human agent will assist you shortly." ->
       <<"I"," ","a","p","o","l","o","g","i","z","e",","," ","I","'","m"," ","e","x","p","e","r","i","e","n","c","i","n","g"," ","t","e","c","h","n","i","c","a","l"," ","d","i","f","f","i","c","u","l","t","i","e","s","."," ","A"," ","h","u","m","a","n"," ","a","g","e","n","t"," ","w","i","l","l"," ","a","s","s","i","s","t"," ","y","o","u"," ","s","h","o","r","t","l","y",".">>
    [] s = "Widget" ->
       <<"W","i","d","g","e","t">>
    [] s = "Gadget" ->
       <<"G","a","d","g","e","t">>
    [] s = "Customer" ->
       <<"C","u","s","t","o","m","e","r">>
    [] s = "c1" ->
       <<"c","1">>
    [] s = "c2" ->
       <<"c","2">>
    [] s = "c3" ->
       <<"c","3">>
ORDER_CONFIRMATION_KEYWORDS ==
  << <<"p","r","o","c","e","s","s","i","n","g">>,
     <<"o","r","d","e","r">>,
     <<"c","o","n","f","i","r","m","e","d">>,
     <<"c","o","m","p","l","e","t","e","d">>,
     <<"s","u","c","c","e","s","s","f","u","l","l","y">> >>
englishHumanKeywords ==
  << <<"h","u","m","a","n">>,
     <<"s","u","p","p","o","r","t">>,
     <<"t","a","l","k"," ","t","o"," ","s","o","m","e","o","n","e">>,
     <<"s","p","e","a","k"," ","w","i","t","h"," ","p","e","r","s","o","n">>,
     <<"a","g","e","n","t">>,
     <<"h","u","m","a","n"," ","a","g","e","n","t">> >>
englishOrderKeywords ==
  << <<"o","r","d","e","r">>,
     <<"b","u","y">>,
     <<"p","u","r","c","h","a","s","e">> >>
englishAppointmentKeywords ==
  << <<"b","o","o","k">>,
     <<"a","p","p","o","i","n","t","m","e","n","t">>,
     <<"s","c","h","e","d","u","l","e">>,
     <<"r","e","s","e","r","v","e">>,
     <<"r","e","s","e","r","v","a","t","i","o","n">> >>
arabicHumanKeywords ==
  << <<"u0628","u0634","u0631","u064A">>,
     <<"u0627","u0646","u0633","u0627","u0646">>,
     <<"u0634","u062E","u0635">>,
     <<"u0645","u0648","u0638","u0641">>,
     <<"u0645","u0645","u062B","u0644">>,
     <<"u062F","u0639","u0645">>,
     <<"u062E","u062F","u0645","u0629">>,
     <<"u0645","u0633","u0627","u0639","u062F","u0629">> >>
arabicOrderKeywords ==
  << <<"u0637","u0644","u0628">>,
     <<"u0623","u0637","u0644","u0628">>,
     <<"u0627","u0634","u062A","u0631","u064A">>,
     <<"u0634","u0631","u0627","u0621">>,
     <<"u0627","u0631","u064A","u062F"," ","u0637","u0644","u0628">>,
     <<"u0627","u0631","u064A","u062F"," ","u0634","u0631","u0627","u0621">> >>
arabicAppointmentKeywords ==
  << <<"u062D","u062C","u0632">>,
     <<"u0627","u062D","u062C","u0632">>,
     <<"u0645","u0648","u0639","u062F">>,
     <<"u062C","u062F","u0648","u0644">>,
     <<"u0627","u0631","u064A","u062F"," ","u0645","u0648","u0639","u062F">>,
     <<"u0627","u062D","u062F","u062F"," ","u0645","u0648","u0639","u062F">> >>

UpperLetters ==
  <<"A","B","C","D","E","F","G","H","I","J","K","L","M",
    "N","O","P","Q","R","S","T","U","V","W","X","Y","Z">>

LowerLetters ==
  <<"a","b","c","d","e","f","g","h","i","j","k","l","m",
    "n","o","p","q","r","s","t","u","v","w","x","y","z">>

Digits == <<"0","1","2","3","4","5","6","7","8","9">>

Range(f) == {f[i] : i \in DOMAIN f}

\* String.prototype.toLowerCase, character by character.
ToLowerChar(c) ==
  IF \E i \in DOMAIN UpperLetters : UpperLetters[i] = c
  THEN LowerLetters[CHOOSE i \in DOMAIN UpperLetters : UpperLetters[i] = c]
  ELSE c

ToLowerCase(cs) == [i \in DOMAIN cs |-> ToLowerChar(cs[i])]

\* String.prototype.includes: needle occurs as a contiguous substring.
Includes(hay, needle) ==
  \E i \in 1..(Len(hay) - Len(needle) + 1) :
     SubSeq(hay, i, i + Len(needle) - 1) = needle

\* keywords.some((keyword) => text.includes(keyword))
SomeIncluded(keywords, text) ==
  \E k \in DOMAIN keywords : Includes(text, keywords[k])

SpaceChars == {" ", "\t", "\n", "\r"}
DigitChars == Range(Digits)
IsSpace(c) == c \in SpaceChars

\* String.prototype.trim
Trim(cs) ==
  LET keep == {i \in DOMAIN cs : ~IsSpace(cs[i])}
  IN  IF keep = {} THEN << >>
      ELSE LET lo == CHOOSE i \in keep : \A j \in keep : i <= j
               hi == CHOOSE i \in keep : \A j \in keep : j <= i
           IN  SubSeq(cs, lo, hi)

\* Array.prototype.join(" ") over strings given as character sequences.
RECURSIVE JoinSpace(_)
JoinSpace(list) ==
  IF list = << >> THEN << >>
  ELSE IF Len(list) = 1 THEN list[1]
  ELSE list[1] \o <<" ">> \o JoinSpace(Tail(list))

\* parseInt(digits, 10) of a non-empty run of decimal digits.
DigitValue(c) == (CHOOSE i \in DOMAIN Digits : Digits[i] = c) - 1

RECURSIVE ParseInt(_)
ParseInt(ds) ==
  IF ds = << >> THEN 0
  ELSE 10 * ParseInt(SubSeq(ds, 1, Len(ds) - 1)) + DigitValue(ds[Len(ds)])

\* Length of the longest run of characters satisfying a class, from position i.
RECURSIVE RunLen(_, _, _)
RunLen(cs, i, class) ==
  IF i > Len(cs) \/ cs[i] \notin class THEN 0
  ELSE 1 + RunLen(cs, i + 1, class)


\* Case-insensitive literal at position i (the /i flag of the patterns).
LiteralAt(cs, i, lit) ==
  /\ i >= 1
  /\ i + Len(lit) - 1 <= Len(cs)
  /\ ToLowerCase(SubSeq(cs, i, i + Len(lit) - 1)) = lit

\* ------------------------------------------------------ regex matches

\* A RegExp match result: null, or the first capture group.
NoMatch == [matched |-> FALSE]
Matched(cs) == [matched |-> TRUE, group |-> cs]

LeastOf(S) == CHOOSE i \in S : \A j \in S : i <= j
GreatestOf(S) == CHOOSE i \in S : \A j \in S : j <= i

\* /(\d+)\s*(?:units?|items?|pieces?)/i at start position i: a greedy run of
\* digits, a greedy run of white space, then one of the three nouns.  Giving
\* back a digit or a space never helps (the next character would be a digit
\* or a space), so only the longest runs are tried.
QuantityAt(cs, i) ==
  LET d == RunLen(cs, i, DigitChars)
      w == RunLen(cs, i + d, SpaceChars)
      p == i + d + w
  IN  /\ d >= 1
      /\ \/ LiteralAt(cs, p, <<"u","n","i","t">>)
         \/ LiteralAt(cs, p, <<"i","t","e","m">>)
         \/ LiteralAt(cs, p, <<"p","i","e","c","e">>)

QuantityMatch(cs) ==
  LET starts == {i \in DOMAIN cs : QuantityAt(cs, i)}
  IN  IF starts = {} THEN NoMatch
      ELSE LET i == LeastOf(starts)
           IN  Matched(SubSeq(cs, i, i + RunLen(cs, i, DigitChars) - 1))

\* /(?:name is|i'm|i am)\s+([A-Za-z\s]+?)(?:,|\.|and|phone|$)/i
NamePrefixLen(cs, i) ==
  IF LiteralAt(cs, i, <<"n","a","m","e"," ","i","s">>) THEN 7
  ELSE IF LiteralAt(cs, i, <<"i","'","m">>) THEN 3
  ELSE IF LiteralAt(cs, i, <<"i"," ","a","m">>) THEN 4
  ELSE 0

NameChars == Range(UpperLetters) \cup Range(LowerLetters) \cup SpaceChars

NameTerminatorAt(cs, p) ==
  \/ LiteralAt(cs, p, <<",">>)
  \/ LiteralAt(cs, p, <<".">>)
  \/ LiteralAt(cs, p, <<"a","n","d">>)
  \/ LiteralAt(cs, p, <<"p","h","o","n","e">>)
  \/ p = Len(cs) + 1

\* The ways the pattern matches from start i: <<k, l>> is k white-space
\* characters for \s+ and l characters for the lazy group.
NameFits(cs, i) ==
  LET p == NamePrefixLen(cs, i)
      wmax == RunLen(cs, i + p, SpaceChars)
  IN  IF p = 0 THEN {}
      ELSE {kl \in (1..wmax) \X (1..Len(cs)) :
              LET g == i + p + kl[1]
              IN  /\ g + kl[2] - 1 <= Len(cs)
                  /\ \A j \in g..(g + kl[2] - 1) : cs[j] \in NameChars
                  /\ NameTerminatorAt(cs, g + kl[2])}

\* Backtracking order: \s+ is greedy (most white space first), the group is
\* lazy (fewest characters first).
NameMatch(cs) ==
  LET starts == {i \in DOMAIN cs : NameFits(cs, i) # {}}
  IN  IF starts = {} THEN NoMatch
      ELSE LET i == LeastOf(starts)
               fits == NameFits(cs, i)
               k == GreatestOf({kl[1] : kl \in fits})
               l == LeastOf({kl[2] : kl \in {x \in fits : x[1] = k}})
               g == i + NamePrefixLen(cs, i) + k
           IN  Matched(SubSeq(cs, g, g + l - 1))

\* /(?:phone|number|contact)\s*(?:is)?\s*([0-9+\-]+)/i
PhonePrefixLen(cs, i) ==
  IF LiteralAt(cs, i, <<"p","h","o","n","e">>) THEN 5
  ELSE IF LiteralAt(cs, i, <<"n","u","m","b","e","r">>) THEN 6
  ELSE IF LiteralAt(cs, i, <<"c","o","n","t","a","c","t">>) THEN 7
  ELSE 0

PhoneChars == DigitChars \cup {"+", "-"}

\* Position of the capture group for start i, or 0 when the pattern does not
\* match there.  The optional "is" is tried first, then skipped.
PhoneGroupAt(cs, i) ==
  LET p == PhonePrefixLen(cs, i)
      a == i + p + RunLen(cs, i + p, SpaceChars)
      b == a + 2 + RunLen(cs, a + 2, SpaceChars)
  IN  IF p = 0 THEN 0
      ELSE IF LiteralAt(cs, a, <<"i","s">>) /\ RunLen(cs, b, PhoneChars) >= 1 THEN b
      ELSE IF RunLen(cs, a, PhoneChars) >= 1 THEN a
      ELSE 0

PhoneMatch(cs) ==
  LET starts == {i \in DOMAIN cs : PhoneGroupAt(cs, i) # 0}
  IN  IF starts = {} THEN NoMatch
      ELSE LET g == PhoneGroupAt(cs, LeastOf(starts))
           IN  Matched(SubSeq(cs, g, g + RunLen(cs, g, PhoneChars) - 1))

\* ------------------------------------------------------------- intent

\* parseIntent with the order keywords looked for first.
parseIntent_OrderFirst(message) ==
  LET normalized == ToLowerCase(Chars(message))
      includesKeyword(keywords) == SomeIncluded(keywords, normalized)
  IN  IF includesKeyword(englishOrderKeywords) \/ includesKeyword(arabicOrderKeywords)
        THEN "order"
      ELSE IF includesKeyword(englishHumanKeywords) \/ includesKeyword(arabicHumanKeywords)
        THEN "human_request"
      ELSE IF includesKeyword(englishAppointmentKeywords)
                \/ includesKeyword(arabicAppointmentKeywords)
        THEN "appointment"
      ELSE "general"

\* parseIntent: the first keyword family found in the lower-cased message, in
\* the order human request, order, appointment.
parseIntent(message) ==
  LET normalized == ToLowerCase(Chars(message))
      includesKeyword(keywords) == SomeIncluded(keywords, normalized)
  IN  IF includesKeyword(englishHumanKeywords) \/ includesKeyword(arabicHumanKeywords)
        THEN "human_request"
      ELSE IF includesKeyword(englishOrderKeywords) \/ includesKeyword(arabicOrderKeywords)
        THEN "order"
      ELSE IF includesKeyword(englishAppointmentKeywords)
                \/ includesKeyword(arabicAppointmentKeywords)
        THEN "appointment"
      ELSE "general"

\* --------------------------------------------------------- AI gateway

HandoffSentence ==
  "I understand you'd like to speak with a human. Let me connect you with our team. Someone will contact you shortly."
TroubleSentence ==
  "I apologize, I'm having trouble responding right now. Please try again."
ApologySentence ==
  "I apologize, I'm experiencing technical difficulties. A human agent will assist you shortly."
PauseNotice ==
  "I've connected you with our support team. A human agent will be with you shortly."
ResumeNotice ==
  "Thank you for your patience. Our AI assistant is now ready to help you again. How can I assist you?"

\* What the completion backend does with one prompt, after its retries: it
\* returns a text, or every attempt throws.
BackendThrows == [ok |-> FALSE, text |-> ""]
BackendReturns(text) == [ok |-> TRUE, text |-> text]

BackendOutcomes ==
  {BackendReturns("Order confirmed"), BackendReturns("We have Widget"),
   BackendReturns(" "), BackendThrows}

\* The response text without the fixed sentence for a blank answer.
ResponseText_TrimOnly(aiText) == Trim(aiText)

\* responseText of generateAIResponse: aiText?.trim() || the fixed sentence.
ResponseText(aiText) ==
  IF Trim(aiText) = << >> THEN Chars(TroubleSentence) ELSE Trim(aiText)

\* The texts the backend resolves with: plain, padded, blank and empty.
BackendTexts ==
  {Chars("Order confirmed"), <<" ", "o", "k", " ">>, <<" ">>, << >>}

\* The value generateAIResponse resolves to for a backend outcome.  The
\* texts of BackendOutcomes have no white space at their ends, so the trim
\* leaves the ones that are not blank as they are.
AIResponseText(outcome) ==
  IF ~outcome.ok THEN ApologySentence
  ELSE IF Trim(Chars(outcome.text)) = << >> THEN TroubleSentence
  ELSE outcome.text

\* --------------------------------------------------- order extraction

\* What maybeCreateOrderFromConversation decides before its first await:
\* nothing to do, or the order to insert and the stock to write.
NoPlan == [create |-> FALSE]

\* The quantity asked for: the number before unit, item or piece, else 1.
RequestedQuantity(recentUserMessages) ==
  LET quantityMatch == QuantityMatch(recentUserMessages)
  IN  IF quantityMatch.matched THEN ParseInt(quantityMatch.group) ELSE 1

MentionedProducts(productsList, recentUserMessages, aiResponseNormalized) ==
  {i \in DOMAIN productsList :
     LET productName == ToLowerCase(Chars(productsList[i].name))
     IN  \/ Includes(ToLowerCase(recentUserMessages), productName)
         \/ Includes(aiResponseNormalized, productName)}

\* customerName: the captured name, else the conversation's, else "Customer".
CustomerNameOf(conversation, nameMatch) ==
  IF nameMatch.matched THEN Trim(nameMatch.group)
  ELSE IF conversation.customerName # << >> THEN conversation.customerName
  ELSE Chars("Customer")

\* customerPhone: the captured number, else the conversation's customer id.
CustomerPhoneOf(conversation, phoneMatch) ==
  IF phoneMatch.matched THEN Trim(phoneMatch.group)
  ELSE Chars(conversation.customerId)

\* The order row, the stock to store and whether the conversation's customer
\* name is filled in.  price and cost are numeric(10,2) columns, kept here in
\* cents: Number() of them is never NaN, so that guard never returns.
PlanWith(shopId, conversation, mentionedProduct, platform, customerName, customerPhone, quantity) ==
  [create |-> TRUE,
   order |-> [shopId |-> shopId,
              productId |-> mentionedProduct.id,
              productName |-> mentionedProduct.name,
              quantity |-> quantity,
              price |-> mentionedProduct.price,
              cost |-> mentionedProduct.cost,
              revenue |-> mentionedProduct.price * quantity,
              profit |-> mentionedProduct.price * quantity
                           - mentionedProduct.cost * quantity,
              customerName |-> customerName,
              customerPhone |-> customerPhone,
              platform |-> IF platform # "" THEN platform
                           ELSE conversation.platform,
              status |-> "pending"],
   stock |-> mentionedProduct.stock - quantity,
   backfill |-> conversation.customerName = << >> /\ customerName # << >>]

\* What the guarded part of maybeCreateOrderFromConversation writes for the
\* mentioned product.
PlanFor(shopId, conversation, mentionedProduct, recentUserMessages, platform) ==
  PlanWith(shopId, conversation, mentionedProduct, platform,
           CustomerNameOf(conversation, NameMatch(recentUserMessages)),
           CustomerPhoneOf(conversation, PhoneMatch(recentUserMessages)),
           RequestedQuantity(recentUserMessages))

\* The extraction with the confirmation-keyword test left out.
OrderPlan_NoKeywordGuard(shopId, conversation, productsList, aiResponse, intent, recentUserMessages, platform) ==
  LET mentioned == MentionedProducts(productsList, recentUserMessages,
                                     ToLowerCase(Chars(aiResponse)))
  IN  IF intent # "order" THEN NoPlan
      ELSE IF mentioned = {} THEN NoPlan
      ELSE LET mentionedProduct == productsList[LeastOf(mentioned)]
           IN  IF mentionedProduct.stock < RequestedQuantity(recentUserMessages)
               THEN NoPlan
               ELSE PlanFor(shopId, conversation, mentionedProduct,
                            recentUserMessages, platform)

\* The extraction with the stock test left out.
OrderPlan_NoStockGuard(shopId, conversation, productsList, aiResponse, intent, recentUserMessages, platform) ==
  LET aiResponseNormalized == ToLowerCase(Chars(aiResponse))
      mentioned == MentionedProducts(productsList, recentUserMessages, aiResponseNormalized)
  IN  IF intent # "order" THEN NoPlan
      ELSE IF ~SomeIncluded(ORDER_CONFIRMATION_KEYWORDS, aiResponseNormalized) THEN NoPlan
      ELSE IF mentioned = {} THEN NoPlan
      ELSE PlanFor(shopId, conversation, productsList[LeastOf(mentioned)],
                   recentUserMessages, platform)

\* maybeCreateOrderFromConversation up to its writes: the guards in the order
\* of the code, then the plan for the first product that is mentioned.
OrderPlan(shopId, conversation, productsList, aiResponse, intent, recentUserMessages, platform) ==
  LET aiResponseNormalized == ToLowerCase(Chars(aiResponse))
      mentioned == MentionedProducts(productsList, recentUserMessages, aiResponseNormalized)
  IN  IF intent # "order" THEN NoPlan
      ELSE IF ~SomeIncluded(ORDER_CONFIRMATION_KEYWORDS, aiResponseNormalized) THEN NoPlan
      ELSE IF mentioned = {} THEN NoPlan
      ELSE LET mentionedProduct == productsList[LeastOf(mentioned)]
           IN  IF mentionedProduct.stock < RequestedQuantity(recentUserMessages)
               THEN NoPlan
               ELSE PlanFor(shopId, conversation, mentionedProduct,
                            recentUserMessages, platform)

\* ------------------------------------------------------------- bounds

\* Requests (webhook POSTs and dashboard send-message calls) over a run.
MaxTurns == 2
\* Operator and read requests (pause, resume, read messages) over a run.
MaxOps == 2
\* Stock of every product at the start.
InitStock == 3

\* ------------------------------------------------------ configuration

Shops == {1, 2}
Slots == {1, 2}

\* META_SHOP_MAP: the source ids mapped to a shop; no META_DEFAULT_SHOP_ID.
metaSourceToShop == [s \in {"src1"} |-> 1]
defaultMetaShopId == 0

resolveMetaShopId(sourceId) ==
  IF sourceId \in DOMAIN metaSourceToShop THEN metaSourceToShop[sourceId]
  ELSE IF defaultMetaShopId # 0 THEN defaultMetaShopId
  ELSE 0

\* ------------------------------------------------------- ai.ts constants

AI_MAX_RETRIES == 3
AI_RETRY_BASE_DELAY_MS == 500
AI_MIN_INTERVAL_MS == 1500
AI_CONVERSATION_CACHE_LIMIT == 1000

\* broadcastToShop calls over a run.
MaxPublished == 2

\* generateAIResponse calls in all, and the last instant of the clock.
MaxCalls == 2
MaxClock == 3000

Callers == 1..2
ConversationKeys == {"1", "2"}

\* A call of generateAIResponse: now is Date.now() at its start, wake the
\* instant its pending timer fires, attempt the attempt of callModelWithRetry.
\* The fields after attempt are what the caller and the timers saw of it:
\* the backoff delays awaited, the text the backend resolved with, whether
\* the promise rejected and the value it resolved to.
IdleCall ==
  [pc |-> "idle", call |-> 0, conversationId |-> "", now |-> 0, wake |-> 0,
   attempt |-> 0, waits |-> << >>, answered |-> FALSE, aiText |-> << >>,
   rejected |-> FALSE, value |-> << >>]

\* ---------------------------------------------------------- the state

VARIABLES
  appSecret,      \* process.env.META_APP_SECRET, "" when not set
  conversations,  \* table conversations: row id = index
  messages,       \* table messages, in creation order
  products,       \* table products: row id = index
  orders,         \* table orders, in creation order
  events,         \* what wsManager.broadcastToShop was given, in order
  turns,          \* the requests in flight, one per slot
  started,        \* requests received so far
  ops,            \* operator and read requests served so far
  lastCall,       \* the last operator request: who asked what, rows returned,
                  \* the status answered (kept for send-message, else 0)
  clock,                  \* Date.now(), in ms
  conversationRateLimit,  \* the Map of ai.ts: conversation id -> ms
  calls,                  \* the generateAIResponse calls in flight
  invocations,            \* every request made to the completion backend
  callsIssued,            \* generateAIResponse calls made so far
  clients,        \* WebSocketManager.clients: shop id -> set of sockets
  sockets,        \* every socket that asked for an upgrade, and what it got
  published,      \* broadcastToShop calls served so far
  metaVerifyToken, \* process.env.META_VERIFY_TOKEN, "" when not set
  verification,   \* the last GET /api/webhooks/meta: its query and its answer
  isRunning,      \* SubscriptionAutomation.isRunning
  shopStatus,     \* shops.status of every shop
  subscriptions,  \* the subscription of every shop: status and expiry date
  runs,           \* the calls of runDailyChecks, by who made them
  runsStarted     \* runDailyChecks calls made so far

\* The state of the response generator's throttle.
throttleVars == <<clock, conversationRateLimit, calls, invocations, callsIssued>>

\* The state of the request handlers and of the storage.
requestVars == <<appSecret, conversations, messages, products, orders, events,
                 turns, started, ops, lastCall>>

\* The state of the WebSocket manager.
socketVars == <<clients, sockets, published>>

verifyVars == <<metaVerifyToken, verification>>

automationVars == <<isRunning, shopStatus, subscriptions, runs, runsStarted>>

vars == <<requestVars, throttleVars, socketVars, verifyVars, automationVars>>

NoConversation ==
  [id |-> 0, shopId |-> 0, customerId |-> "", customerName |-> << >>,
   platform |-> "", status |-> "", pausedForHuman |-> FALSE]

\* A slot with no request.  The fields after status are not program state:
\* they record what the request has done so far (the spy of the tests).
IdleTurn ==
  [kind |-> "idle", pc |-> "idle", shopId |-> 0, signature |-> << >>,
   hasRawBody |-> FALSE, body |-> << >>, idx |-> 0, customerId |-> "", platform |-> "", text |-> "",
   conversationId |-> 0, conversation |-> NoConversation, productsList |-> << >>,
   history |-> << >>, aiResponse |-> "", intent |-> "", status |-> 0,
   aiInvoked |-> FALSE, replies |-> << >>, pausedSet |-> FALSE, orderId |-> 0,
   stockWrite |-> << >>, backfilled |-> FALSE, orderEvent |-> FALSE,
   extracted |-> FALSE, plan |-> NoPlan, failed |-> FALSE, failedAt |-> "", outbound |-> "none",
   userMessage |-> 0, arrivedSuspended |-> FALSE]

\* Two conversations made with POST /api/conversations, one per shop, and
\* the catalog: Widget and the inactive Gadget of shop 1, Widget of shop 2.
\* No socket has connected.  readyState is CONNECTING until the handshake,
\* then OPEN, CLOSING from close() or terminate() on, CLOSED once the close
\* event was emitted; inbox is what was sent to the socket.  isAlive is the
\* flag of the heartbeat; pinged says a ping of the heartbeat has had no pong
\* yet, terminated that the heartbeat has terminated the socket.
SocketIds == 1..3

NoSocket ==
  [readyState |-> "CONNECTING", userId |-> 0, shopId |-> 0, answer |-> "",
   inbox |-> {}, isAlive |-> "undefined", pinged |-> FALSE, terminated |-> FALSE]

InitSockets ==
  /\ clients = [k \in {} |-> {}]
  /\ sockets = [s \in SocketIds |-> NoSocket]
  /\ published = 0

\* A value of req.query: a string, undefined when the parameter is absent,
\* an array when it is repeated (s is then its first element).
Str(s) == [type |-> "string", s |-> s]

Undefined == [type |-> "undefined", s |-> ""]

Arr(s) == [type |-> "array", s |-> s]

\* No verification request has been answered.
NoVerification ==
  [status |-> 0, body |-> [type |-> "none", s |-> ""], mode |-> Undefined,
   token |-> Undefined, challenge |-> Undefined]

InitVerification(verifyToken) ==
  /\ metaVerifyToken = verifyToken
  /\ verification = NoVerification

\* Who calls runDailyChecks: the cron schedule, the timer of start() and the
\* admin endpoint.
RunCallers == {"cron", "startup", "admin"}

ZeroCounts == [expiring |-> 0, expired |-> 0, renewed |-> 0, failed |-> 0]

\* No call is being made.  checks counts the checks the call performed,
\* outcome is "returned" or "thrown" once it has ended.
IdleRun == [pc |-> "idle", result |-> ZeroCounts, checks |-> 0, outcome |-> ""]

\* A subscription's expiry date relative to now: "past", "soon" (within 3
\* days), "week" (on the seventh day from now) or "far".
Subscription(status, expiry) == [status |-> status, expiry |-> expiry]

\* Every shop is active with an active subscription; no check is running.
InitSubscriptions(expiry) ==
  /\ isRunning = FALSE
  /\ shopStatus = [s \in Shops |-> "active"]
  /\ subscriptions = [s \in Shops |-> Subscription("active", IF s = 1 THEN expiry ELSE "far")]
  /\ runs = [c \in RunCallers |-> IdleRun]
  /\ runsStarted = 0

InitAutomation == InitSubscriptions("far")

InitRows(stock) ==
  /\ appSecret = "s3cret"
  /\ conversations =
       << [id |-> 1, shopId |-> 1, customerId |-> "c1", customerName |-> << >>,
           platform |-> "whatsapp", status |-> "active", pausedForHuman |-> FALSE],
          [id |-> 2, shopId |-> 2, customerId |-> "c2", customerName |-> << >>,
           platform |-> "chat", status |-> "active", pausedForHuman |-> FALSE] >>
  /\ messages = << >>
  /\ products =
       << [id |-> 1, shopId |-> 1, name |-> "Widget", price |-> 1000, cost |-> 400,
           stock |-> stock, active |-> TRUE],
          [id |-> 2, shopId |-> 1, name |-> "Gadget", price |-> 2500, cost |-> 0,
           stock |-> stock, active |-> FALSE],
          [id |-> 3, shopId |-> 2, name |-> "Widget", price |-> 1200, cost |-> 500,
           stock |-> stock, active |-> TRUE] >>
  /\ orders = << >>
  /\ events = << >>
  /\ turns = [s \in Slots |-> IdleTurn]
  /\ started = 0
  /\ ops = 0
  /\ lastCall = [op |-> "", shopId |-> 0, conversationId |-> 0, count |-> 0,
                status |-> 0]

InitRequests == InitRows(InitStock)

\* The response generator has served nothing yet.
Init ==
  /\ InitRequests
  /\ clock = AI_RETRY_BASE_DELAY_MS
  /\ conversationRateLimit = [k \in {} |-> 0]
  /\ calls = [c \in Callers |-> IdleCall]
  /\ invocations = {}
  /\ callsIssued = 0
  /\ InitSockets
  /\ InitVerification("verify-me")
  /\ InitAutomation

\* ------------------------------------------------------------ storage

\* The rows of a table at the given indices, in table order.
RECURSIVE PickRows(_, _)
PickRows(table, idx) ==
  IF idx = {} THEN << >>
  ELSE LET i == GreatestOf(idx)
       IN  Append(PickRows(table, idx \ {i}), table[i])

Reverse(s) == [i \in DOMAIN s |-> s[Len(s) + 1 - i]]

\* storage.getProducts: the shop's products, newest first (all of them,
\* active or not).
getProducts(shopId) ==
  Reverse(PickRows(products, {i \in DOMAIN products : products[i].shopId = shopId}))

\* storage.getMessages: the messages of a conversation, oldest first; the
\* query has no shop condition.
getMessages(conversationId) ==
  PickRows(messages,
           {i \in DOMAIN messages : messages[i].conversationId = conversationId})

\* storage.getConversation: the row with this id and this shop, if any.
getConversation(id, shopId) ==
  IF id \in DOMAIN conversations /\ conversations[id].shopId = shopId
  THEN conversations[id] ELSE NoConversation

\* storage.getConversationByCustomerId: the newest row of the customer in
\* the shop, if any.
getConversationByCustomerId(customerId, shopId) ==
  LET ids == {i \in DOMAIN conversations :
                /\ conversations[i].customerId = customerId
                /\ conversations[i].shopId = shopId}
  IN  IF ids = {} THEN NoConversation ELSE conversations[GreatestOf(ids)]

\* A row with the columns of data set (.set(data) of an update).
SetColumns(row, data) ==
  [k \in DOMAIN row |-> IF k \in DOMAIN data THEN data[k] ELSE row[k]]

\* storage.updateConversation and storage.updateProduct: the rows with this
\* id and this shop get the new fields; no row, no change.
updateConversation(id, shopId, data) ==
  [i \in DOMAIN conversations |->
     IF i = id /\ conversations[i].shopId = shopId
     THEN SetColumns(conversations[i], data) ELSE conversations[i]]

updateProduct(id, shopId, data) ==
  [i \in DOMAIN products |->
     IF i = id /\ products[i].shopId = shopId
     THEN SetColumns(products[i], data) ELSE products[i]]

\* storage.createMessage: by is the shop of the authenticated caller, 0 for
\* the webhook (not a column: it records who caused the row).
createMessage(conversationId, role, content, by) ==
  Append(messages,
         [conversationId |-> conversationId, role |-> role, content |-> content,
          by |-> by])

\* ------------------------------------------------------------- inputs

UserTexts ==
  {"buy 3 units Widget", "buy widget", "buy gadget", "yes order it",
   "hi widget", "human please", " "}

\* A webhook delivery in the WhatsApp shape: one entry of one source id with
\* one change carrying the messages.
Body(sourceId, msgs) == [id |-> sourceId, messages |-> msgs]
Msg(from, text) == [from |-> from, text |-> text]

\* A null in the messages array: reading its sender throws in the loop.
NullMessage == [null |-> TRUE]

WebhookBodies ==
  {Body("src1", <<Msg("c1", t)>>) : t \in UserTexts}
    \cup {Body("src1", <<Msg("c3", t)>>) : t \in {"buy widget", "human please"}}
    \cup {Body("srcX", <<Msg("c1", "hi widget")>>)}
    \cup {Body("src1", <<Msg("c1", "hi widget"), Msg("c1", "human please")>>)}

\* 'sha256=' + HMAC-SHA256(secret, rawBody) in hex.  The digest is kept as
\* the pair it is computed from: equal digests exactly for equal inputs.
ExpectedSignature(secret, rawBody) == <<"sha256=", secret, rawBody>>

\* The body a tampered delivery was signed for, before a byte was flipped.
Untampered(body) == [body EXCEPT !.id = "src0"]

\* The deliveries: every body rightly signed, and one body with each way a
\* delivery can be wrong: no x-hub-signature-256 header, a header made with
\* another secret, a header made for another body, no raw body.
Delivery(body, signature, hasRawBody) ==
  [body |-> body, signature |-> signature, hasRawBody |-> hasRawBody]

ProbeBody == Body("src1", <<Msg("c1", "hi widget")>>)

WebhookDeliveries ==
  {Delivery(b, ExpectedSignature("s3cret", b), TRUE) : b \in WebhookBodies}
    \cup {Delivery(ProbeBody, << >>, TRUE),
          Delivery(ProbeBody, ExpectedSignature("guess", ProbeBody), TRUE),
          Delivery(ProbeBody, ExpectedSignature("s3cret", Untampered(ProbeBody)), TRUE),
          Delivery(ProbeBody, ExpectedSignature("s3cret", ProbeBody), FALSE)}

\* The dashboard send-message calls <<shop of the user, :id, content>>: every
\* text into the caller's own conversation 1, one of shop 2 into its own,
\* and calls naming a conversation of the other shop or of nobody.
DashCalls ==
  {<<1, 1, t>> : t \in UserTexts}
    \cup {<<2, 2, "buy widget">>, <<2, 1, "hi widget">>, <<1, 2, "buy widget">>,
          <<1, 3, "hi widget">>}

\* ---------------------------------------------------- request records

Put(t, r) == turns' = [turns EXCEPT ![t] = r]

\* A handler that has answered is dropped (Retire) before anything else runs.
Quiet == \A s \in Slots : turns[s].pc # "done"

At(t, pc) == Quiet /\ turns[t].pc = pc

\* A request takes the first slot that holds none.
Free(t) ==
  /\ Quiet
  /\ turns[t].pc = "idle"
  /\ \A s \in Slots : s < t => turns[s].pc # "idle"

\* messageHistory.filter(role === 'user').slice(-3).map(content).join(' ')
RecentUserMessages(history) ==
  LET users == PickRows(history, {i \in DOMAIN history : history[i].role = "user"})
      n == Len(users)
      last == SubSeq(users, IF n > 3 THEN n - 2 ELSE 1, n)
  IN  JoinSpace([i \in DOMAIN last |-> Chars(last[i].content)])

\* The decision of maybeCreateOrderFromConversation for a request, from the
\* values the handler passes to it.
PlanOf(r) ==
  OrderPlan(r.shopId, r.conversation, r.productsList, r.aiResponse, r.intent,
            RecentUserMessages(r.history),
            IF r.kind = "webhook" THEN r.platform ELSE r.conversation.platform)

\* Where a handler goes on when maybeCreateOrderFromConversation returns.
AfterExtraction(r) == IF r.kind = "webhook" THEN "w_msgDone" ELSE "d_touch"

\* maybeCreateOrderFromConversation is entered: its guards run and its locals
\* (customerName, quantity, mentionedProduct) are set before the first await.
Planned(r, plan) ==
  [r EXCEPT !.extracted = TRUE, !.plan = plan,
            !.pc = IF plan.create THEN "x_createOrder" ELSE AfterExtraction(r)]

EnterExtraction(r) == Planned(r, PlanOf(r))

\* wsManager.broadcastToShop is called for the shop: ref is the row the event
\* carries, a message's place in the table or an order's id.
Broadcast(shopId, type, ref) ==
  events' = Append(events, [shopId |-> shopId, type |-> type, ref |-> ref])

\* ------------------------------------------------------- webhook path

\* The loop of POST /api/webhooks/meta from message idx on, up to the first
\* await of handleMetaMessage: an unresolved source skips the change, a
\* message without sender is skipped, an empty text returns at once.  A null
\* message throws in the loop itself: the catch of the route answers 500.
RECURSIVE WDispatch(_)
WDispatch(r) ==
  LET shopId == resolveMetaShopId(r.body.id)
      fresh == [IdleTurn EXCEPT !.kind = "webhook", !.body = r.body,
                  !.signature = r.signature, !.hasRawBody = r.hasRawBody,
                  !.idx = r.idx]
  IN  IF r.idx > Len(r.body.messages) \/ shopId = 0
        THEN [fresh EXCEPT !.pc = "done", !.status = 200]
      ELSE LET message == r.body.messages[r.idx]
           IN  IF message = NullMessage
                 THEN [fresh EXCEPT !.pc = "done", !.status = 500]
               ELSE IF message.from = ""
                 THEN WDispatch([r EXCEPT !.idx = r.idx + 1])
               ELSE [fresh EXCEPT
                       !.shopId = shopId,
                       !.customerId = message.from,
                       !.platform = "whatsapp",
                       !.text = message.text,
                       !.arrivedSuspended = (shopStatus[shopId] = "suspended"),
                       !.pc = IF Trim(Chars(message.text)) = << >>
                              THEN "w_msgDone" ELSE "w_getConv"]

\* The webhook handler with the comparison of the signature left out.
WebhookPost_NoCompare(t, body, signature, hasRawBody) ==
  /\ Free(t)
  /\ started < MaxTurns
  /\ started' = started + 1
  /\ LET r == [IdleTurn EXCEPT !.kind = "webhook", !.body = body,
                 !.signature = signature, !.hasRawBody = hasRawBody, !.idx = 1]
         answer(status) == [r EXCEPT !.pc = "done", !.status = status]
     IN  IF appSecret # "" /\ signature = << >> THEN Put(t, answer(403))
         ELSE IF appSecret # "" /\ ~hasRawBody THEN Put(t, answer(400))
         ELSE IF ~hasRawBody THEN Put(t, answer(200))
         ELSE Put(t, WDispatch(r))
  /\ UNCHANGED <<throttleVars, socketVars, verifyVars, automationVars, appSecret, conversations, messages, products, orders, events,
                 ops, lastCall>>

\* POST /api/webhooks/meta arrives: the signature check, then the loop.
\* rawBody is set by the JSON body parser; without it (hasRawBody false) the
\* parsed body is empty.
WebhookPost(t, body, signature, hasRawBody) ==
  /\ Free(t)
  /\ started < MaxTurns
  /\ started' = started + 1
  /\ LET r == [IdleTurn EXCEPT !.kind = "webhook", !.body = body,
                 !.signature = signature, !.hasRawBody = hasRawBody, !.idx = 1]
         answer(status) == [r EXCEPT !.pc = "done", !.status = status]
     IN  IF appSecret # "" /\ signature = << >> THEN Put(t, answer(403))
         ELSE IF appSecret # "" /\ ~hasRawBody THEN Put(t, answer(400))
         ELSE IF appSecret # "" /\ signature # ExpectedSignature(appSecret, body)
           THEN Put(t, answer(403))
         ELSE IF ~hasRawBody THEN Put(t, answer(200))
         ELSE Put(t, WDispatch(r))
  /\ UNCHANGED <<throttleVars, socketVars, verifyVars, automationVars, appSecret, conversations, messages, products, orders, events,
                 ops, lastCall>>

WGetConversation(t) ==
  /\ At(t, "w_getConv")
  /\ LET r == turns[t]
         found == getConversationByCustomerId(r.customerId, r.shopId)
     IN  IF found.id = 0
         THEN Put(t, [r EXCEPT !.pc = "w_createConv"])
         ELSE Put(t, [r EXCEPT !.conversation = found, !.pc = "w_createMsg"])
  /\ UNCHANGED <<throttleVars, socketVars, verifyVars, automationVars, appSecret, conversations, messages, products, orders, events,
                 started, ops, lastCall>>

WCreateConversation(t) ==
  /\ At(t, "w_createConv")
  /\ LET r == turns[t]
         created == [id |-> Len(conversations) + 1, shopId |-> r.shopId,
                     customerId |-> r.customerId, customerName |-> << >>,
                     platform |-> r.platform, status |-> "active",
                     pausedForHuman |-> FALSE]
     IN  /\ conversations' = Append(conversations, created)
         /\ Put(t, [r EXCEPT !.conversation = created, !.pc = "w_createMsg"])
  /\ UNCHANGED <<throttleVars, socketVars, verifyVars, automationVars, appSecret, messages, products, orders, events, started, ops,
                 lastCall>>

\* handleMetaMessage not awaited by the loop: the next message of the batch
\* is taken up as soon as the customer's message is stored.
WCreateUserMessage_LoopGoesOn(t) ==
  /\ At(t, "w_createMsg")
  /\ LET r == turns[t]
     IN  /\ messages' = createMessage(r.conversation.id, "user", r.text, 0)
         /\ Put(t, WDispatch([r EXCEPT !.idx = r.idx + 1]))
  /\ UNCHANGED <<throttleVars, socketVars, verifyVars, automationVars, appSecret, conversations, products, orders, events, started,
                 ops, lastCall>>

WCreateUserMessage(t) ==
  /\ At(t, "w_createMsg")
  /\ LET r == turns[t]
     IN  /\ messages' = createMessage(r.conversation.id, "user", r.text, 0)
         /\ Put(t, [r EXCEPT !.userMessage = Len(messages) + 1,
                             !.pc = "w_context"])
  /\ UNCHANGED <<throttleVars, socketVars, verifyVars, automationVars, appSecret, conversations, products, orders, events, started,
                 ops, lastCall>>

\* Promise.all of getShop, getProducts, getServices and getMessages; then
\* generateAIResponse is entered.
WLoadContext(t) ==
  /\ At(t, "w_context")
  /\ LET r == turns[t]
     IN  Put(t, [r EXCEPT !.productsList = getProducts(r.shopId),
                          !.history = getMessages(r.conversation.id),
                          !.pc = "w_generate"])
  /\ UNCHANGED <<throttleVars, socketVars, verifyVars, automationVars, appSecret, conversations, messages, products, orders, events,
                 started, ops, lastCall>>

WGenerate(t, outcome) ==
  /\ At(t, "w_generate")
  /\ Put(t, [turns[t] EXCEPT !.aiResponse = AIResponseText(outcome),
                             !.aiInvoked = TRUE, !.pc = "w_createReply"])
  /\ UNCHANGED <<throttleVars, socketVars, verifyVars, automationVars, appSecret, conversations, messages, products, orders, events,
                 started, ops, lastCall>>

WCreateReply(t) ==
  /\ At(t, "w_createReply")
  /\ LET r == turns[t]
     IN  /\ messages' = createMessage(r.conversation.id, "assistant", r.aiResponse, 0)
         /\ Put(t, [r EXCEPT !.replies = Append(r.replies, r.aiResponse),
                             !.pc = "w_touch"])
  /\ UNCHANGED <<throttleVars, socketVars, verifyVars, automationVars, appSecret, conversations, products, orders, events, started,
                 ops, lastCall>>

\* updateConversation({lastMessageAt}): the time stamp is not kept.
WTouch(t) ==
  /\ At(t, "w_touch")
  /\ Put(t, [turns[t] EXCEPT !.pc = "w_send"])
  /\ UNCHANGED <<throttleVars, socketVars, verifyVars, automationVars, appSecret, conversations, messages, products, orders, events,
                 started, ops, lastCall>>

\* sendMetaMessage with a delivery failure that reaches the caller: the catch
\* of handleMetaMessage ends the message before order extraction.
WSend_FailureThrows(t, delivered) ==
  /\ At(t, "w_send")
  /\ IF delivered
       THEN Put(t, EnterExtraction([turns[t] EXCEPT
                                      !.outbound = "delivered",
                                      !.intent = parseIntent(turns[t].text)]))
       ELSE Put(t, [turns[t] EXCEPT !.outbound = "failed", !.failed = TRUE,
                                    !.failedAt = "w_send", !.pc = "w_msgDone"])
  /\ UNCHANGED <<throttleVars, socketVars, verifyVars, automationVars, appSecret, conversations, messages, products, orders, events,
                 started, ops, lastCall>>

\* sendMetaMessage resolves, delivered or not (it catches and logs its own
\* failures); then parseIntent and maybeCreateOrderFromConversation up to its
\* first await.
WSend(t, delivered) ==
  /\ At(t, "w_send")
  /\ Put(t, EnterExtraction([turns[t] EXCEPT
                               !.outbound = IF delivered THEN "delivered"
                                            ELSE "failed",
                               !.intent = parseIntent(turns[t].text)]))
  /\ UNCHANGED <<throttleVars, socketVars, verifyVars, automationVars, appSecret, conversations, messages, products, orders, events,
                 started, ops, lastCall>>

\* handleMetaMessage has returned: the loop goes on with the next message,
\* or the delivery is answered 200.
WebhookNext(t) ==
  /\ At(t, "w_msgDone")
  /\ Put(t, WDispatch([turns[t] EXCEPT !.idx = turns[t].idx + 1]))
  /\ UNCHANGED <<throttleVars, socketVars, verifyVars, automationVars, appSecret, conversations, messages, products, orders, events,
                 started, ops, lastCall>>

\* --------------------------------------------------- order extraction

XCreateOrder(t) ==
  /\ At(t, "x_createOrder")
  /\ LET r == turns[t]
         plan == r.plan
         id == Len(orders) + 1
     IN  /\ orders' = Append(orders, [id |-> id] @@ plan.order)
         /\ Put(t, [r EXCEPT !.orderId = id, !.pc = "x_updateProduct"])
  /\ UNCHANGED <<throttleVars, socketVars, verifyVars, automationVars, appSecret, conversations, messages, products, events, started,
                 ops, lastCall>>

\* The order is broadcast when the last storage call of the try block has
\* resolved.
XUpdateProduct(t) ==
  /\ At(t, "x_updateProduct")
  /\ LET r == turns[t]
         plan == r.plan
         pid == plan.order.productId
     IN  /\ products' = updateProduct(pid, r.shopId, [stock |-> plan.stock])
         /\ IF plan.backfill
            THEN /\ Put(t, [r EXCEPT
                             !.stockWrite = <<[productId |-> pid,
                                               quantity |-> plan.order.quantity,
                                               before |-> products[pid].stock]>>,
                             !.pc = "x_backfill"])
                 /\ UNCHANGED events
            ELSE /\ Put(t, [r EXCEPT
                             !.stockWrite = <<[productId |-> pid,
                                               quantity |-> plan.order.quantity,
                                               before |-> products[pid].stock]>>,
                             !.orderEvent = TRUE,
                             !.pc = AfterExtraction(r)])
                 /\ Broadcast(r.shopId, "order:created", r.orderId)
  /\ UNCHANGED <<throttleVars, socketVars, verifyVars, automationVars, appSecret, conversations, messages, orders, started, ops,
                 lastCall>>

XBackfill(t) ==
  /\ At(t, "x_backfill")
  /\ LET r == turns[t]
         plan == r.plan
     IN  /\ conversations' = updateConversation(r.conversation.id, r.shopId,
                              [customerName |-> plan.order.customerName])
         /\ Put(t, [r EXCEPT !.backfilled = TRUE, !.orderEvent = TRUE,
                             !.pc = AfterExtraction(r)])
         /\ Broadcast(r.shopId, "order:created", r.orderId)
  /\ UNCHANGED <<throttleVars, socketVars, verifyVars, automationVars, appSecret, messages, products, orders, started, ops, lastCall>>

\* ----------------------------------------------------- dashboard path

\* POST /api/conversations/:id/messages by a user of shop shopId.
DashPost(t, shopId, id, content) ==
  /\ Free(t)
  /\ started < MaxTurns
  /\ started' = started + 1
  /\ Put(t, [IdleTurn EXCEPT !.kind = "dash", !.shopId = shopId,
                             !.conversationId = id, !.text = content,
                             !.pc = "d_getConv"])
  /\ UNCHANGED <<throttleVars, socketVars, verifyVars, automationVars, appSecret, conversations, messages, products, orders, events,
                 ops, lastCall>>

\* The lookup of the send-message handler without its test of the pause.
DGetConversation_NoPauseTest(t) ==
  /\ At(t, "d_getConv")
  /\ LET r == turns[t]
         conversation == getConversation(r.conversationId, r.shopId)
     IN  IF conversation.id = 0
           THEN Put(t, [r EXCEPT !.pc = "done", !.status = 404])
         ELSE Put(t, [r EXCEPT !.conversation = conversation, !.pc = "d_createMsg"])
  /\ UNCHANGED <<throttleVars, socketVars, verifyVars, automationVars, appSecret, conversations, messages, products, orders, events,
                 started, ops, lastCall>>

DGetConversation(t) ==
  /\ At(t, "d_getConv")
  /\ LET r == turns[t]
         conversation == getConversation(r.conversationId, r.shopId)
     IN  IF conversation.id = 0
           THEN Put(t, [r EXCEPT !.pc = "done", !.status = 404])
         ELSE IF conversation.pausedForHuman
           THEN Put(t, [r EXCEPT !.conversation = conversation, !.pc = "done",
                                 !.status = 400])
         ELSE Put(t, [r EXCEPT !.conversation = conversation, !.pc = "d_createMsg"])
  /\ UNCHANGED <<throttleVars, socketVars, verifyVars, automationVars, appSecret, conversations, messages, products, orders, events,
                 started, ops, lastCall>>

\* The user message is saved and broadcast; then parseIntent.
DCreateUserMessage(t) ==
  /\ At(t, "d_createMsg")
  /\ LET r == turns[t]
         intent == parseIntent(r.text)
     IN  /\ messages' = createMessage(r.conversationId, "user", r.text, r.shopId)
         /\ Broadcast(r.shopId, "message:received", Len(messages) + 1)
         /\ Put(t, [r EXCEPT !.userMessage = Len(messages) + 1,
                             !.intent = intent,
                             !.pc = IF intent = "human_request" THEN "d_pause"
                                    ELSE "d_context"])
  /\ UNCHANGED <<throttleVars, socketVars, verifyVars, automationVars, appSecret, conversations, products, orders, started, ops,
                 lastCall>>

DPause(t) ==
  /\ At(t, "d_pause")
  /\ LET r == turns[t]
     IN  /\ conversations' = updateConversation(r.conversationId, r.shopId,
                              [pausedForHuman |-> TRUE, status |-> "paused"])
         /\ Put(t, [r EXCEPT !.pausedSet = TRUE, !.pc = "d_handoffMsg"])
  /\ UNCHANGED <<throttleVars, socketVars, verifyVars, automationVars, appSecret, messages, products, orders, events, started, ops,
                 lastCall>>

DHandoffMessage(t) ==
  /\ At(t, "d_handoffMsg")
  /\ LET r == turns[t]
     IN  /\ messages' = createMessage(r.conversationId, "assistant", HandoffSentence,
                                      r.shopId)
         /\ Put(t, [r EXCEPT !.replies = Append(r.replies, HandoffSentence),
                             !.pc = "d_handoffTouch"])
  /\ UNCHANGED <<throttleVars, socketVars, verifyVars, automationVars, appSecret, conversations, products, orders, events, started,
                 ops, lastCall>>

DHandoffTouch(t) ==
  /\ At(t, "d_handoffTouch")
  /\ Put(t, [turns[t] EXCEPT !.pc = "done", !.status = 200])
  /\ UNCHANGED <<throttleVars, socketVars, verifyVars, automationVars, appSecret, conversations, messages, products, orders, events,
                 started, ops, lastCall>>

\* getShop, getProducts, getServices, getMessages, one after the other; then
\* generateAIResponse is entered.
DLoadContext(t) ==
  /\ At(t, "d_context")
  /\ Put(t, [turns[t] EXCEPT !.productsList = getProducts(turns[t].shopId),
                             !.pc = "d_generate"])
  /\ UNCHANGED <<throttleVars, socketVars, verifyVars, automationVars, appSecret, conversations, messages, products, orders, events,
                 started, ops, lastCall>>

DGenerate(t, outcome) ==
  /\ At(t, "d_generate")
  /\ Put(t, [turns[t] EXCEPT !.aiResponse = AIResponseText(outcome),
                             !.aiInvoked = TRUE, !.pc = "d_createReply"])
  /\ UNCHANGED <<throttleVars, socketVars, verifyVars, automationVars, appSecret, conversations, messages, products, orders, events,
                 started, ops, lastCall>>

DCreateReply(t) ==
  /\ At(t, "d_createReply")
  /\ LET r == turns[t]
     IN  /\ messages' = createMessage(r.conversationId, "assistant", r.aiResponse,
                                      r.shopId)
         /\ Put(t, [r EXCEPT !.replies = Append(r.replies, r.aiResponse),
                             !.pc = "d_fullHistory"])
  /\ UNCHANGED <<throttleVars, socketVars, verifyVars, automationVars, appSecret, conversations, products, orders, events, started,
                 ops, lastCall>>

\* getMessages again, then maybeCreateOrderFromConversation up to its first
\* await.
DFullHistory(t) ==
  /\ At(t, "d_fullHistory")
  /\ Put(t, EnterExtraction([turns[t] EXCEPT
                               !.history = getMessages(turns[t].conversationId)]))
  /\ UNCHANGED <<throttleVars, socketVars, verifyVars, automationVars, appSecret, conversations, messages, products, orders, events,
                 started, ops, lastCall>>

DTouch(t) ==
  /\ At(t, "d_touch")
  /\ Put(t, [turns[t] EXCEPT !.pc = "done", !.status = 200])
  /\ UNCHANGED <<throttleVars, socketVars, verifyVars, automationVars, appSecret, conversations, messages, products, orders, events,
                 started, ops, lastCall>>

\* ----------------------------------------------------------- failures

StoragePcs ==
  {"w_getConv", "w_createConv", "w_createMsg", "w_context", "w_createReply",
   "w_touch", "x_createOrder", "x_updateProduct", "x_backfill", "d_getConv",
   "d_createMsg", "d_pause", "d_handoffMsg", "d_handoffTouch", "d_context",
   "d_createReply", "d_fullHistory", "d_touch"}

ExtractionPcs == {"x_createOrder", "x_updateProduct", "x_backfill"}

\* The pending storage call rejects, with every catch treating it alike:
\* the one of maybeCreateOrderFromConversation too ends the request.
StorageThrows_ExtractionAborts(t) ==
  /\ Quiet
  /\ turns[t].pc \in StoragePcs
  /\ LET r == [turns[t] EXCEPT !.failed = TRUE, !.failedAt = turns[t].pc]
     IN  IF r.kind = "webhook"
           THEN Put(t, [r EXCEPT !.pc = "w_msgDone"])
         ELSE Put(t, [r EXCEPT !.pc = "done", !.status = 500])
  /\ UNCHANGED <<throttleVars, socketVars, verifyVars, automationVars, appSecret, conversations, messages, products, orders, events,
                 started, ops, lastCall>>

\* The pending storage call rejects, handleMetaMessage having no catch of
\* its own: the catch of the route answers 500.
StorageThrows_DeliveryAborts(t) ==
  /\ Quiet
  /\ turns[t].pc \in StoragePcs
  /\ LET r == [turns[t] EXCEPT !.failed = TRUE, !.failedAt = turns[t].pc]
     IN  IF r.pc \in ExtractionPcs
           THEN Put(t, [r EXCEPT !.pc = AfterExtraction(r)])
         ELSE Put(t, [r EXCEPT !.pc = "done", !.status = 500])
  /\ UNCHANGED <<throttleVars, socketVars, verifyVars, automationVars, appSecret, conversations, messages, products, orders, events,
                 started, ops, lastCall>>

\* The pending storage call rejects.  Inside maybeCreateOrderFromConversation
\* its own catch logs and returns; elsewhere the catch of handleMetaMessage
\* ends the message, and the catch of the dashboard handler answers 500.
StorageThrows(t) ==
  /\ Quiet
  /\ turns[t].pc \in StoragePcs
  /\ LET r == [turns[t] EXCEPT !.failed = TRUE, !.failedAt = turns[t].pc]
     IN  IF r.pc \in ExtractionPcs
           THEN Put(t, [r EXCEPT !.pc = AfterExtraction(r)])
         ELSE IF r.kind = "webhook"
           THEN Put(t, [r EXCEPT !.pc = "w_msgDone"])
         ELSE Put(t, [r EXCEPT !.pc = "done", !.status = 500])
  /\ UNCHANGED <<throttleVars, socketVars, verifyVars, automationVars, appSecret, conversations, messages, products, orders, events,
                 started, ops, lastCall>>

\* ------------------------------------------------- operator endpoints

\* The operator endpoints are taken as one step each: their two storage
\* calls follow one another with nothing of the same request in between.
Answered(op, shopId, id, count, status) ==
  /\ ops < MaxOps
  /\ ops' = ops + 1
  /\ lastCall' = [op |-> op, shopId |-> shopId, conversationId |-> id,
                  count |-> count, status |-> status]

Called(op, shopId, id, count) == Answered(op, shopId, id, count, 0)

\* The pause endpoint with a storage that sets the flag only.
SupportPause_FlagOnly(shopId, id) ==
  /\ Called("pause", shopId, id, 0)
  /\ conversations' = updateConversation(id, shopId, [pausedForHuman |-> TRUE])
  /\ messages' = IF id \in DOMAIN conversations
                 THEN createMessage(id, "assistant", PauseNotice, shopId)
                 ELSE messages
  /\ UNCHANGED <<throttleVars, socketVars, verifyVars, automationVars, appSecret, products, orders, events, turns, started>>

\* POST /api/support/:conversationId/pause.  The update has the shop in its
\* condition; the insert of the notice has not, and fails only when no
\* conversation has the id (foreign key).
SupportPause(shopId, id) ==
  /\ Called("pause", shopId, id, 0)
  /\ conversations' = updateConversation(id, shopId,
                         [pausedForHuman |-> TRUE, status |-> "paused"])
  /\ messages' = IF id \in DOMAIN conversations
                 THEN createMessage(id, "assistant", PauseNotice, shopId)
                 ELSE messages
  /\ UNCHANGED <<throttleVars, socketVars, verifyVars, automationVars, appSecret, products, orders, events, turns, started>>

\* The resume endpoint with a storage that sets the status only.
SupportResume_StatusOnly(shopId, id) ==
  /\ Called("resume", shopId, id, 0)
  /\ conversations' = updateConversation(id, shopId, [status |-> "active"])
  /\ messages' = IF id \in DOMAIN conversations
                 THEN createMessage(id, "assistant", ResumeNotice, shopId)
                 ELSE messages
  /\ UNCHANGED <<throttleVars, socketVars, verifyVars, automationVars, appSecret, products, orders, events, turns, started>>

\* POST /api/support/:conversationId/resume.
SupportResume(shopId, id) ==
  /\ Called("resume", shopId, id, 0)
  /\ conversations' = updateConversation(id, shopId,
                         [pausedForHuman |-> FALSE, status |-> "active"])
  /\ messages' = IF id \in DOMAIN conversations
                 THEN createMessage(id, "assistant", ResumeNotice, shopId)
                 ELSE messages
  /\ UNCHANGED <<throttleVars, socketVars, verifyVars, automationVars, appSecret, products, orders, events, turns, started>>

\* The send-message endpoint without the test of pausedForHuman.
SupportSend_NoPauseTest(shopId, id, content) ==
  LET conversation == getConversation(id, shopId)
  IN  /\ Answered("send", shopId, id, 0, IF conversation.id = 0 THEN 404 ELSE 200)
      /\ IF conversation.id = 0
         THEN UNCHANGED <<messages, events>>
         ELSE /\ messages' = createMessage(id, "assistant", content, shopId)
              /\ Broadcast(shopId, "message:received", Len(messages) + 1)
      /\ UNCHANGED <<throttleVars, socketVars, verifyVars, automationVars, appSecret, conversations, products, orders, turns, started>>

\* POST /api/support/:conversationId/send-message: 404 unless the shop has
\* the conversation, 400 unless it is paused.
SupportSend(shopId, id, content) ==
  LET conversation == getConversation(id, shopId)
      status == IF conversation.id = 0 THEN 404
                ELSE IF ~conversation.pausedForHuman THEN 400
                ELSE 200
  IN  /\ Answered("send", shopId, id, 0, status)
      /\ IF status # 200
         THEN UNCHANGED <<messages, events>>
         ELSE /\ messages' = createMessage(id, "assistant", content, shopId)
              /\ Broadcast(shopId, "message:received", Len(messages) + 1)
      /\ UNCHANGED <<throttleVars, socketVars, verifyVars, automationVars, appSecret, conversations, products, orders, turns, started>>

\* GET /api/conversations/:id/messages by a user of shop shopId.
ReadMessages(shopId, id) ==
  /\ Called("read", shopId, id, Len(getMessages(id)))
  /\ UNCHANGED <<throttleVars, socketVars, verifyVars, automationVars, appSecret, conversations, messages, products, orders, events,
                 turns, started>>

\* ------------------------------------------------- the specifications

\* The handler has answered: its frame, and what the model recorded of it,
\* is dropped before anything else runs.
Retire(t) ==
  /\ turns[t].pc = "done"
  /\ Put(t, IdleTurn)
  /\ UNCHANGED <<throttleVars, socketVars, verifyVars, automationVars, appSecret, conversations, messages, products, orders, events,
                 started, ops, lastCall>>

\* One step of a conversation turn on either path, storage failures apart.
TurnStep(t) ==
  \/ \E d \in WebhookDeliveries : WebhookPost(t, d.body, d.signature, d.hasRawBody)
  \/ WGetConversation(t)
  \/ WCreateConversation(t)
  \/ WCreateUserMessage(t)
  \/ WLoadContext(t)
  \/ \E outcome \in BackendOutcomes : WGenerate(t, outcome)
  \/ WCreateReply(t)
  \/ WTouch(t)
  \/ \E delivered \in BOOLEAN : WSend(t, delivered)
  \/ WebhookNext(t)
  \/ \E c \in DashCalls : DashPost(t, c[1], c[2], c[3])
  \/ DGetConversation(t)
  \/ DCreateUserMessage(t)
  \/ DPause(t)
  \/ DHandoffMessage(t)
  \/ DHandoffTouch(t)
  \/ DLoadContext(t)
  \/ \E outcome \in BackendOutcomes : DGenerate(t, outcome)
  \/ DCreateReply(t)
  \/ DFullHistory(t)
  \/ DTouch(t)
  \/ XCreateOrder(t)
  \/ XUpdateProduct(t)
  \/ XBackfill(t)
  \/ Retire(t)

\* Conversation turns on both paths, one request after the other, any
\* storage call of which may fail.
Next == TurnStep(1) \/ StorageThrows(1)

Spec == Init /\ [][Next]_vars

\* The same with a storage that never fails.
NextNoFault == TurnStep(1)

SpecNoFault == Init /\ [][NextNoFault]_vars

\* Webhook deliveries of several messages, signed, one of them with a null
\* in its messages; any storage call may fail, the backend and the outbound
\* delivery too.
BatchDeliveries ==
  {Delivery(b, ExpectedSignature("s3cret", b), TRUE) :
     b \in {Body("src1", <<Msg("c1", "buy widget"), Msg("c1", "hi widget")>>),
            Body("src1", <<Msg("c1", " "), Msg("c3", "buy widget")>>),
            Body("src1", <<Msg("c1", "hi widget"), NullMessage>>)}}

BatchOutcomes == {BackendReturns("Order confirmed"), BackendThrows}

BatchStep(t) ==
  \/ \E d \in BatchDeliveries : WebhookPost(t, d.body, d.signature, d.hasRawBody)
  \/ WGetConversation(t)
  \/ WCreateConversation(t)
  \/ WCreateUserMessage(t)
  \/ WLoadContext(t)
  \/ \E outcome \in BatchOutcomes : WGenerate(t, outcome)
  \/ WCreateReply(t)
  \/ WTouch(t)
  \/ \E delivered \in BOOLEAN : WSend(t, delivered)
  \/ WebhookNext(t)
  \/ XCreateOrder(t)
  \/ XUpdateProduct(t)
  \/ XBackfill(t)
  \/ Retire(t)

NextBatch == BatchStep(1) \/ StorageThrows(1)

SpecBatch == Init /\ [][NextBatch]_vars

\* The worked example of the order heuristic: every product has 5 in stock,
\* and customer c1 writes the example sentence, or asks for 0 units, on
\* either path; the backend answers with or without a confirmation.
ExampleTexts ==
  {"I want to order 3 widgets, name is Sara, phone is 555-1234",
   "buy 0 units widget", "buy widget"}

ExampleDeliveries ==
  {Delivery(b, ExpectedSignature("s3cret", b), TRUE) :
     b \in {Body("src1", <<Msg("c1", text)>>) : text \in ExampleTexts}}

ExampleCalls == {<<1, 1, text>> : text \in ExampleTexts}

ExampleOutcomes ==
  {BackendReturns("processing your order"), BackendReturns("We have Widget")}

InitExample ==
  /\ InitRows(5)
  /\ clock = AI_RETRY_BASE_DELAY_MS
  /\ conversationRateLimit = [k \in {} |-> 0]
  /\ calls = [c \in Callers |-> IdleCall]
  /\ invocations = {}
  /\ callsIssued = 0
  /\ InitSockets
  /\ InitVerification("verify-me")
  /\ InitAutomation

ExampleStep(t) ==
  \/ \E d \in ExampleDeliveries : WebhookPost(t, d.body, d.signature, d.hasRawBody)
  \/ WGetConversation(t)
  \/ WCreateUserMessage(t)
  \/ WLoadContext(t)
  \/ \E outcome \in ExampleOutcomes : WGenerate(t, outcome)
  \/ WCreateReply(t)
  \/ WTouch(t)
  \/ WSend(t, TRUE)
  \/ WebhookNext(t)
  \/ \E c \in ExampleCalls : DashPost(t, c[1], c[2], c[3])
  \/ DGetConversation(t)
  \/ DCreateUserMessage(t)
  \/ DLoadContext(t)
  \/ \E outcome \in ExampleOutcomes : DGenerate(t, outcome)
  \/ DCreateReply(t)
  \/ DFullHistory(t)
  \/ DTouch(t)
  \/ XCreateOrder(t)
  \/ XUpdateProduct(t)
  \/ XBackfill(t)
  \/ Retire(t)

NextExample == ExampleStep(1)

SpecExample == InitExample /\ [][NextExample]_vars

\* Two dashboard requests in flight at once: the handlers interleave at
\* every await.  Both ask for the same product of the same shop.
RaceCalls == {<<1, 1, "buy 3 units Widget">>, <<1, 1, "buy widget">>}

RaceOutcomes == {BackendReturns("Order confirmed"), BackendReturns("We have Widget")}

RaceStep(t) ==
  \/ \E c \in RaceCalls : DashPost(t, c[1], c[2], c[3])
  \/ DGetConversation(t)
  \/ DCreateUserMessage(t)
  \/ DLoadContext(t)
  \/ \E outcome \in RaceOutcomes : DGenerate(t, outcome)
  \/ DCreateReply(t)
  \/ DFullHistory(t)
  \/ DTouch(t)
  \/ XCreateOrder(t)
  \/ XUpdateProduct(t)
  \/ XBackfill(t)
  \/ Retire(t)

NextRace == \E t \in Slots : RaceStep(t)

SpecRace == Init /\ [][NextRace]_vars

\* Two dashboard users of shop 1 write sentences that mix the keyword
\* families, in English, in capitals and in Arabic (order and support).
IntentTexts ==
  {"I want to order but can I talk to a human", "BOOK with an AGENT",
   "buy and book", "reserve a table", "hello there",
   "u0637u0644u0628 u062Fu0639u0645", "buy widget"}

IntentCalls == {<<1, 1, text>> : text \in IntentTexts}

IntentOutcomes == {BackendReturns("Order confirmed")}

IntentStep(t) ==
  \/ \E c \in IntentCalls : DashPost(t, c[1], c[2], c[3])
  \/ DGetConversation(t)
  \/ DCreateUserMessage(t)
  \/ DPause(t)
  \/ DHandoffMessage(t)
  \/ DHandoffTouch(t)
  \/ DLoadContext(t)
  \/ \E outcome \in IntentOutcomes : DGenerate(t, outcome)
  \/ DCreateReply(t)
  \/ DFullHistory(t)
  \/ DTouch(t)
  \/ XCreateOrder(t)
  \/ XUpdateProduct(t)
  \/ XBackfill(t)
  \/ Retire(t)

NextIntent == \E t \in Slots : IntentStep(t)

SpecIntent == Init /\ [][NextIntent]_vars

\* Two webhook deliveries in flight at once, of the new customer c3 or of
\* customer c1 who has a conversation: the handlers interleave at every await.
ArrivalDeliveries ==
  {Delivery(b, ExpectedSignature("s3cret", b), TRUE) :
     b \in {Body("src1", <<Msg("c3", "hi widget")>>),
            Body("src1", <<Msg("c1", "hi widget")>>)}}

ArrivalOutcomes == {BackendReturns("We have Widget")}

ArrivalStep(t) ==
  \/ \E d \in ArrivalDeliveries : WebhookPost(t, d.body, d.signature, d.hasRawBody)
  \/ WGetConversation(t)
  \/ WCreateConversation(t)
  \/ WCreateUserMessage(t)
  \/ WLoadContext(t)
  \/ \E outcome \in ArrivalOutcomes : WGenerate(t, outcome)
  \/ WCreateReply(t)
  \/ WTouch(t)
  \/ WSend(t, TRUE)
  \/ WebhookNext(t)
  \/ Retire(t)

NextArrivals == \E t \in Slots : ArrivalStep(t)

SpecArrivals == Init /\ [][NextArrivals]_vars

\* What a body of POST /api/conversations may say of the row's state: a
\* status, a pausedForHuman flag, or neither ("" and "default": the column
\* default applies).
PostedStatuses == {"", "archived"}

PostedFlags == {"default", "true"}

\* POST /api/conversations: the body is spread into the row with the shop of
\* the user; status defaults to active and paused_for_human to false.
ConversationPost(shopId, customerId, status, flag) ==
  /\ Called("create", shopId, Len(conversations) + 1, 0)
  /\ conversations' =
       Append(conversations,
              [id |-> Len(conversations) + 1, shopId |-> shopId,
               customerId |-> customerId, customerName |-> << >>,
               platform |-> "chat",
               status |-> IF status = "" THEN "active" ELSE status,
               pausedForHuman |-> (flag = "true")])
  /\ UNCHANGED <<throttleVars, socketVars, verifyVars, automationVars, appSecret, messages, products, orders, events, turns,
                 started>>

\* Dashboard users of both shops and a webhook customer at work: the
\* conversation turns one after the other, and the operator endpoints at any
\* moment.
OpsCalls == {<<1, 1, "human please">>, <<2, 2, "buy widget">>}

OpsOutcomes == {BackendReturns("Order confirmed")}

OpsIds == 1..3

\* One signed delivery with a message of customer c1 (conversation 1).
OpsDeliveries == {Delivery(ProbeBody, ExpectedSignature("s3cret", ProbeBody), TRUE)}

OpsStep(t) ==
  \/ \E d \in OpsDeliveries : WebhookPost(t, d.body, d.signature, d.hasRawBody)
  \/ WGetConversation(t)
  \/ WCreateUserMessage(t)
  \/ WLoadContext(t)
  \/ \E outcome \in OpsOutcomes : WGenerate(t, outcome)
  \/ WCreateReply(t)
  \/ WTouch(t)
  \/ WSend(t, TRUE)
  \/ WebhookNext(t)
  \/ \E c \in OpsCalls : DashPost(t, c[1], c[2], c[3])
  \/ DGetConversation(t)
  \/ DCreateUserMessage(t)
  \/ DPause(t)
  \/ DHandoffMessage(t)
  \/ DHandoffTouch(t)
  \/ DLoadContext(t)
  \/ \E outcome \in OpsOutcomes : DGenerate(t, outcome)
  \/ DCreateReply(t)
  \/ DFullHistory(t)
  \/ DTouch(t)
  \/ XCreateOrder(t)
  \/ XUpdateProduct(t)
  \/ XBackfill(t)
  \/ Retire(t)

NextOps ==
  \/ OpsStep(1)
  \/ \E shopId \in Shops, id \in OpsIds : SupportPause(shopId, id)
  \/ \E shopId \in Shops, id \in OpsIds : SupportResume(shopId, id)
  \/ \E shopId \in Shops, id \in OpsIds : SupportSend(shopId, id, "hi widget")
  \/ \E shopId \in Shops, id \in OpsIds : ReadMessages(shopId, id)

SpecOps == Init /\ [][NextOps]_vars

\* The same with conversations created from the dashboard.
NextStates ==
  \/ NextOps
  \/ \E shopId \in Shops, status \in PostedStatuses, flag \in PostedFlags :
       ConversationPost(shopId, "c3", status, flag)

SpecStates == Init /\ [][NextStates]_vars

\* --------------------------------------- the response generator's throttle

\* pruneConversationRateLimit: nothing below the cache limit.
pruneConversationRateLimit(map, now) ==
  IF Cardinality(DOMAIN map) <= AI_CONVERSATION_CACHE_LIMIT THEN map
  ELSE [k \in {j \in DOMAIN map : ~(now - map[j] > AI_MIN_INTERVAL_MS * 10)}
          |-> map[k]]

\* conversationRateLimit.set(key, value)
MapSet(map, key, value) ==
  [k \in DOMAIN map \cup {key} |-> IF k = key THEN value ELSE map[k]]

\* ai.models.generateContent is called for the call r, now.
Invoke(r) ==
  invocations' = invocations \cup
    {[call |-> r.call, conversationId |-> r.conversationId, issued |-> r.now,
      attempt |-> r.attempt, at |-> clock]}

SetCall(c, r) == calls' = [calls EXCEPT ![c] = r]

\* generateAIResponse is called: it waits when the map holds an instant less
\* than the interval ago, and calls the backend at once when not.
Generate(c, conversationId) ==
  /\ calls[c].pc = "idle"
  /\ \A b \in Callers : b < c => calls[b].pc # "idle"
  /\ callsIssued < MaxCalls
  /\ callsIssued' = callsIssued + 1
  /\ LET lastInvocation ==
           IF conversationId \in DOMAIN conversationRateLimit
           THEN conversationRateLimit[conversationId] ELSE 0
         r == [IdleCall EXCEPT !.call = callsIssued + 1,
                               !.conversationId = conversationId,
                               !.now = clock, !.attempt = 1]
     IN  IF /\ conversationId # ""
            /\ lastInvocation # 0
            /\ clock - lastInvocation < AI_MIN_INTERVAL_MS
         THEN /\ SetCall(c, [r EXCEPT
                   !.pc = "delay",
                   !.wake = clock + (AI_MIN_INTERVAL_MS - (clock - lastInvocation))])
              /\ UNCHANGED invocations
         ELSE /\ SetCall(c, [r EXCEPT !.pc = "backend"])
              /\ Invoke(r)
  /\ UNCHANGED <<requestVars, socketVars, verifyVars, automationVars, clock, conversationRateLimit>>

\* The timer of the throttle fires: the backend is called.
DelayEnds(c) ==
  /\ calls[c].pc = "delay"
  /\ clock >= calls[c].wake
  /\ SetCall(c, [calls[c] EXCEPT !.pc = "backend"])
  /\ Invoke(calls[c])
  /\ UNCHANGED <<requestVars, socketVars, verifyVars, automationVars, clock, conversationRateLimit, callsIssued>>

\* The generator resolving to the answer of a first attempt only.
ModelReturns_FirstAttemptOnly(c, aiText) ==
  /\ calls[c].pc = "backend"
  /\ conversationRateLimit' =
       IF calls[c].conversationId # ""
       THEN pruneConversationRateLimit(
              MapSet(conversationRateLimit, calls[c].conversationId, clock), clock)
       ELSE conversationRateLimit
  /\ SetCall(c, [calls[c] EXCEPT !.pc = "returned", !.answered = TRUE,
                                 !.aiText = aiText,
                                 !.value = IF calls[c].attempt = 1
                                           THEN ResponseText(aiText)
                                           ELSE Chars(ApologySentence)])
  /\ UNCHANGED <<requestVars, socketVars, verifyVars, automationVars, clock, invocations, callsIssued>>

\* The backend answers with aiText: the instant goes into the map and the
\* call resolves to the response text.
ModelReturns(c, aiText) ==
  /\ calls[c].pc = "backend"
  /\ conversationRateLimit' =
       IF calls[c].conversationId # ""
       THEN pruneConversationRateLimit(
              MapSet(conversationRateLimit, calls[c].conversationId, clock), clock)
       ELSE conversationRateLimit
  /\ SetCall(c, [calls[c] EXCEPT !.pc = "returned", !.answered = TRUE,
                                 !.aiText = aiText,
                                 !.value = ResponseText(aiText)])
  /\ UNCHANGED <<requestVars, socketVars, verifyVars, automationVars, clock, invocations, callsIssued>>

\* The backend throws: callModelWithRetry backs off and tries again, and
\* after the last attempt it rethrows: the catch of generateAIResponse logs
\* and the call resolves to the apology, the map untouched.
ModelThrows(c) ==
  /\ calls[c].pc = "backend"
  /\ IF calls[c].attempt >= AI_MAX_RETRIES
     THEN SetCall(c, [calls[c] EXCEPT !.pc = "returned",
                                      !.value = Chars(ApologySentence)])
     ELSE LET backoff == AI_RETRY_BASE_DELAY_MS * 2 ^ (calls[c].attempt - 1)
          IN  SetCall(c, [calls[c] EXCEPT
                            !.pc = "backoff",
                            !.waits = Append(calls[c].waits, backoff),
                            !.wake = clock + backoff])
  /\ UNCHANGED <<requestVars, socketVars, verifyVars, automationVars, clock, conversationRateLimit, invocations,
                 callsIssued>>

\* The caller takes the value the call resolved to.
Return(c) ==
  /\ calls[c].pc = "returned"
  /\ SetCall(c, IdleCall)
  /\ UNCHANGED <<requestVars, socketVars, verifyVars, automationVars, clock, conversationRateLimit, invocations,
                 callsIssued>>

Retry(c) ==
  /\ calls[c].pc = "backoff"
  /\ clock >= calls[c].wake
  /\ LET r == [calls[c] EXCEPT !.pc = "backend", !.attempt = calls[c].attempt + 1]
     IN  SetCall(c, r) /\ Invoke(r)
  /\ UNCHANGED <<requestVars, socketVars, verifyVars, automationVars, clock, conversationRateLimit, callsIssued>>

\* Time passes, up to the next timer that is due.
Advance ==
  /\ clock < MaxClock
  /\ \A c \in Callers :
       calls[c].pc \in {"delay", "backoff"} => clock < calls[c].wake
  /\ clock' = clock + AI_RETRY_BASE_DELAY_MS
  /\ UNCHANGED <<requestVars, socketVars, verifyVars, automationVars, conversationRateLimit, calls, invocations,
                 callsIssued>>

NextThrottle ==
  \/ Advance
  \/ \E c \in Callers, k \in ConversationKeys : Generate(c, k)
  \/ \E c \in Callers : DelayEnds(c)
  \/ \E c \in Callers, aiText \in BackendTexts : ModelReturns(c, aiText)
  \/ \E c \in Callers : ModelThrows(c)
  \/ \E c \in Callers : Retry(c)
  \/ \E c \in Callers : Return(c)

SpecThrottle == Init /\ [][NextThrottle]_vars

\* The cache at its limit: AI_CONVERSATION_CACHE_LIMIT conversations were
\* answered within the last ten intervals (here at the instant the run
\* starts), and calls go on for one of them and for one more conversation.
CachedKeys == {ToString(i) : i \in 1..AI_CONVERSATION_CACHE_LIMIT}

CacheKeys == {"1", "1001"}

CacheTexts == {Chars("Order confirmed")}

InitCache ==
  /\ InitRequests
  /\ clock = AI_RETRY_BASE_DELAY_MS
  /\ conversationRateLimit = [k \in CachedKeys |-> AI_RETRY_BASE_DELAY_MS]
  /\ calls = [c \in Callers |-> IdleCall]
  /\ invocations = {}
  /\ callsIssued = 0
  /\ InitSockets
  /\ InitVerification("verify-me")
  /\ InitAutomation

NextCache ==
  \/ Advance
  \/ \E k \in CacheKeys : Generate(1, k)
  \/ DelayEnds(1)
  \/ \E aiText \in CacheTexts : ModelReturns(1, aiText)
  \/ ModelThrows(1)
  \/ Retry(1)
  \/ Return(1)

SpecCache == InitCache /\ [][NextCache]_vars

\* ------------------------------------------------ the WebSocket manager

\* req.user after the session and passport middleware: a user of shop 1,
\* one of shop 2, nobody, and a user that has no shop.
SessionUsers ==
  {[id |-> 1, shopId |-> 1], [id |-> 2, shopId |-> 2], [id |-> 0, shopId |-> 0],
   [id |-> 3, shopId |-> 0]}

Pathnames == {"/ws", "/vite-hmr"}

\* this.clients.get(shopId)?.add(ws), the Set made first when there is none.
AddClient(map, shopId, ws) ==
  [k \in DOMAIN map \cup {shopId} |->
     IF k \in DOMAIN map THEN (IF k = shopId THEN map[k] \cup {ws} ELSE map[k])
     ELSE {ws}]

\* The close handler: the socket leaves its shop's Set and an empty Set
\* leaves the Map.
RemoveClient(map, shopId, ws) ==
  LET keep == {k \in DOMAIN map : k # shopId \/ map[k] \ {ws} # {}}
  IN  [k \in keep |-> IF k = shopId THEN map[k] \ {ws} ELSE map[k]]

\* server.on('upgrade') and, when the session has a user with a shop, the
\* connection handler: the socket is registered and gets the welcome.
Upgrade(ws, user, pathname) ==
  /\ sockets[ws] = NoSocket
  /\ \A s \in SocketIds : s < ws => sockets[s] # NoSocket
  /\ IF pathname # "/ws"
       THEN /\ sockets' = [sockets EXCEPT ![ws].answer = "ignored",
                                          ![ws].readyState = "CLOSED"]
            /\ UNCHANGED clients
     ELSE IF user.id = 0 \/ user.shopId = 0
       THEN /\ sockets' = [sockets EXCEPT ![ws].answer = "401",
                                          ![ws].readyState = "CLOSED"]
            /\ UNCHANGED clients
     ELSE /\ sockets' = [sockets EXCEPT
                           ![ws] = [readyState |-> "OPEN", userId |-> user.id,
                                    shopId |-> user.shopId, answer |-> "101",
                                    inbox |-> {[type |-> "connected", shopId |-> 0,
                                                n |-> 0]},
                                    isAlive |-> "true", pinged |-> FALSE,
                                    terminated |-> FALSE]]
          /\ clients' = AddClient(clients, user.shopId, ws)
  /\ UNCHANGED <<requestVars, throttleVars, verifyVars, automationVars, published>>

\* The peer closes, or the heartbeat terminates the socket: readyState
\* leaves OPEN before the close event is emitted.
Closing(ws) ==
  /\ sockets[ws].readyState = "OPEN"
  /\ sockets' = [sockets EXCEPT ![ws].readyState = "CLOSING"]
  /\ UNCHANGED <<requestVars, throttleVars, verifyVars, automationVars, clients, published>>

\* ws.on('close').
CloseEvent(ws) ==
  /\ sockets[ws].readyState = "CLOSING"
  /\ sockets' = [sockets EXCEPT ![ws].readyState = "CLOSED"]
  /\ clients' = RemoveClient(clients, sockets[ws].shopId, ws)
  /\ UNCHANGED <<requestVars, throttleVars, verifyVars, automationVars, published>>

\* A broadcast that goes to every registered socket, whatever its shop.
broadcastToShop_Everyone(shopId, type) ==
  /\ published < MaxPublished
  /\ published' = published + 1
  /\ LET event == [type |-> type, shopId |-> shopId, n |-> published + 1]
         receivers == {c \in SocketIds :
                         /\ \E k \in DOMAIN clients : c \in clients[k]
                         /\ sockets[c].readyState = "OPEN"}
     IN  sockets' = [s \in SocketIds |->
                       IF s \in receivers
                       THEN [sockets[s] EXCEPT !.inbox = sockets[s].inbox \cup {event}]
                       ELSE sockets[s]]
  /\ UNCHANGED <<requestVars, throttleVars, verifyVars, automationVars, clients>>

\* wsManager.broadcastToShop(shopId, data): the event is sent to the open
\* sockets of the shop's Set.
broadcastToShop(shopId, type) ==
  /\ published < MaxPublished
  /\ published' = published + 1
  /\ LET event == [type |-> type, shopId |-> shopId, n |-> published + 1]
         receivers == IF shopId \in DOMAIN clients
                      THEN {c \in clients[shopId] : sockets[c].readyState = "OPEN"}
                      ELSE {}
     IN  sockets' = [s \in SocketIds |->
                       IF s \in receivers
                       THEN [sockets[s] EXCEPT !.inbox = sockets[s].inbox \cup {event}]
                       ELSE sockets[s]]
  /\ UNCHANGED <<requestVars, throttleVars, verifyVars, automationVars, clients>>

NextSockets ==
  \/ \E ws \in SocketIds, user \in SessionUsers, pathname \in Pathnames :
       Upgrade(ws, user, pathname)
  \/ \E ws \in SocketIds : Closing(ws)
  \/ \E ws \in SocketIds : CloseEvent(ws)
  \/ \E shopId \in Shops, type \in {"message:received", "order:created"} :
       broadcastToShop(shopId, type)

SpecSockets == Init /\ [][NextSockets]_vars

\* this.wss.clients: the sockets that were upgraded and have not closed.
WssClients ==
  {s \in SocketIds : sockets[s].answer = "101" /\ sockets[s].readyState # "CLOSED"}

\* A heartbeat that pings and never terminates.
Heartbeat_PingOnly ==
  /\ WssClients # {}
  /\ sockets' = [s \in SocketIds |->
                   IF s \in WssClients
                   THEN [sockets[s] EXCEPT !.isAlive = "false", !.pinged = TRUE]
                   ELSE sockets[s]]
  /\ UNCHANGED <<requestVars, throttleVars, verifyVars, automationVars, clients, published>>

\* A tick of the heartbeat interval: a client whose isAlive is false is
\* terminated, every other client has isAlive set to false and is pinged.
Heartbeat ==
  /\ WssClients # {}
  /\ sockets' = [s \in SocketIds |->
                   IF s \notin WssClients THEN sockets[s]
                   ELSE IF sockets[s].isAlive = "false"
                     THEN [sockets[s] EXCEPT !.readyState = "CLOSING",
                                             !.terminated = TRUE]
                   ELSE [sockets[s] EXCEPT !.isAlive = "false", !.pinged = TRUE]]
  /\ UNCHANGED <<requestVars, throttleVars, verifyVars, automationVars, clients, published>>

\* ws.on('pong'): the peer has answered the ping.
Pong(ws) ==
  /\ sockets[ws].readyState = "OPEN"
  /\ sockets[ws].pinged
  /\ sockets' = [sockets EXCEPT ![ws].isAlive = "true", ![ws].pinged = FALSE]
  /\ UNCHANGED <<requestVars, throttleVars, verifyVars, automationVars, clients, published>>

NextHeartbeat ==
  \/ \E ws \in SocketIds, user \in SessionUsers, pathname \in Pathnames :
       Upgrade(ws, user, pathname)
  \/ \E ws \in SocketIds : Closing(ws)
  \/ \E ws \in SocketIds : CloseEvent(ws)
  \/ Heartbeat
  \/ \E ws \in SocketIds : Pong(ws)

SpecHeartbeat == Init /\ [][NextHeartbeat]_vars
\* ------------------------------------------------ webhook verification

\* a === b for a query value a and a string b.
StrictEquals(v, str) == v.type = "string" /\ v.s = str

\* res.send(body): a string is written as it is, nothing is written for
\* undefined, an array is written as JSON.
Send(body) ==
  CASE body.type = "string" -> [type |-> "text", s |-> body.s]
    [] body.type = "undefined" -> [type |-> "empty", s |-> ""]
    [] OTHER -> [type |-> "json", s |-> body.s]

\* res.sendStatus(code): the status with its standard text as the body.
SendStatus(code) ==
  [status |-> code,
   body |-> [type |-> "text",
             s |-> IF code = 500 THEN "Internal Server Error" ELSE "Forbidden"]]

\* The handler compares the token only.
VerifyAnswer_AnyMode(verifyToken, mode, token, challenge) ==
  IF verifyToken = "" THEN SendStatus(500)
  ELSE IF StrictEquals(token, verifyToken)
    THEN [status |-> 200, body |-> Send(challenge)]
  ELSE SendStatus(403)

\* The answer of GET /api/webhooks/meta.
VerifyAnswer(verifyToken, mode, token, challenge) ==
  IF verifyToken = "" THEN SendStatus(500)
  ELSE IF StrictEquals(mode, "subscribe") /\ StrictEquals(token, verifyToken)
    THEN [status |-> 200, body |-> Send(challenge)]
  ELSE SendStatus(403)

VerifyTokens == {"", "verify-me"}

QueryModes == {Str("subscribe"), Str("unsubscribe"), Arr("subscribe"), Undefined}

QueryTokens == {Str("verify-me"), Str("guess"), Str(""), Arr("verify-me"), Undefined}

QueryChallenges == {Str("1158201444"), Str("42"), Undefined}

\* GET /api/webhooks/meta: the handler reads the query and the configured
\* token, and answers.
VerifyGet(mode, token, challenge) ==
  LET a == VerifyAnswer(metaVerifyToken, mode, token, challenge)
  IN  /\ verification' = [status |-> a.status, body |-> a.body, mode |-> mode,
                          token |-> token, challenge |-> challenge]
      /\ UNCHANGED <<requestVars, throttleVars, socketVars, automationVars, metaVerifyToken>>

\* The verification endpoint beside the operator endpoints, with and without
\* a configured verify token.
InitVerify ==
  /\ InitRequests
  /\ clock = AI_RETRY_BASE_DELAY_MS
  /\ conversationRateLimit = [k \in {} |-> 0]
  /\ calls = [c \in Callers |-> IdleCall]
  /\ invocations = {}
  /\ callsIssued = 0
  /\ InitSockets
  /\ metaVerifyToken \in VerifyTokens
  /\ verification = NoVerification
  /\ InitAutomation

NextVerify ==
  \/ \E mode \in QueryModes, token \in QueryTokens, challenge \in QueryChallenges :
       VerifyGet(mode, token, challenge)
  \/ \E shopId \in Shops, id \in OpsIds : SupportPause(shopId, id)
  \/ \E shopId \in Shops, id \in OpsIds : SupportResume(shopId, id)
  \/ \E shopId \in Shops, id \in OpsIds : SupportSend(shopId, id, "hi widget")
  \/ \E shopId \in Shops, id \in OpsIds : ReadMessages(shopId, id)

SpecVerify == InitVerify /\ [][NextVerify]_vars

\* ------------------------------------------- subscription automation

MaxRuns == 3

CheckPcs == {"expiring", "expired", "renewals"}

\* What the Stripe lookup of a renewal candidate gives: the status of the
\* Stripe subscription, "throws" when the call rejects, "none" when Stripe is
\* not configured or the shop has no Stripe ids.
StripeOutcomes == {"active", "past_due", "canceled", "throws", "none"}

SetRun(c, r) == runs' = [runs EXCEPT ![c] = r]

\* The shops whose subscription is active and expires as given.
ActiveExpiring(expiry) ==
  {s \in Shops : subscriptions[s].status = "active" /\ subscriptions[s].expiry = expiry}

\* runDailyChecks up to its first await: a call made while another runs
\* returns the zero counts, else the flag is set and the first check begins.
RunStart(c) ==
  /\ runs[c].pc = "idle"
  /\ runsStarted < MaxRuns
  /\ runsStarted' = runsStarted + 1
  /\ IF isRunning
       THEN /\ SetRun(c, [IdleRun EXCEPT !.pc = "done", !.outcome = "returned"])
            /\ UNCHANGED isRunning
       ELSE /\ isRunning' = TRUE
            /\ SetRun(c, [IdleRun EXCEPT !.pc = "expiring"])
  /\ UNCHANGED <<requestVars, throttleVars, socketVars, verifyVars, shopStatus, subscriptions>>

\* checkExpiringSubscriptions: the warnings are sent (a failed email is
\* logged) and the number of subscriptions found is the count.
CheckExpiring(c) ==
  /\ runs[c].pc = "expiring"
  /\ SetRun(c, [runs[c] EXCEPT !.pc = "expired",
                               !.checks = @ + 1,
                               !.result.expiring = Cardinality(ActiveExpiring("week"))])
  /\ UNCHANGED <<requestVars, throttleVars, socketVars, verifyVars, isRunning, shopStatus,
                 subscriptions, runsStarted>>

\* checkExpiredSubscriptions: every active subscription past its expiry date
\* becomes inactive and its shop suspended; when the update of the shop
\* rejects the catch of the loop logs it and the shop stays as it is.
CheckExpired(c, shopUpdated) ==
  /\ runs[c].pc = "expired"
  /\ LET found == ActiveExpiring("past")
     IN  /\ subscriptions' = [s \in Shops |->
                                IF s \in found
                                THEN [subscriptions[s] EXCEPT !.status = "inactive"]
                                ELSE subscriptions[s]]
         /\ shopStatus' = [s \in Shops |->
                             IF s \in found /\ shopUpdated THEN "suspended"
                             ELSE shopStatus[s]]
         /\ SetRun(c, [runs[c] EXCEPT !.pc = "renewals",
                                      !.checks = @ + 1,
                                      !.result.expired = Cardinality(found)])
  /\ UNCHANGED <<requestVars, throttleVars, socketVars, verifyVars, isRunning, runsStarted>>

\* processSubscriptionRenewals and the end of runDailyChecks: an active
\* Stripe subscription renews the subscription and the shop, an unpaid one
\* marks the subscription past due; the counts are returned and the flag is
\* cleared.
CheckRenewals(c, stripe) ==
  /\ runs[c].pc = "renewals"
  /\ LET found == IF stripe = "none" THEN {} ELSE ActiveExpiring("soon")
         renewed == IF stripe = "active" THEN found ELSE {}
         unpaid == IF stripe = "past_due" THEN found ELSE {}
         failed == IF stripe \in {"past_due", "throws"} THEN found ELSE {}
     IN  /\ subscriptions' = [s \in Shops |->
                                IF s \in renewed THEN Subscription("active", "far")
                                ELSE IF s \in unpaid
                                  THEN [subscriptions[s] EXCEPT !.status = "past_due"]
                                ELSE subscriptions[s]]
         /\ shopStatus' = [s \in Shops |->
                             IF s \in renewed THEN "active" ELSE shopStatus[s]]
         /\ SetRun(c, [runs[c] EXCEPT !.pc = "done",
                                      !.checks = @ + 1,
                                      !.outcome = "returned",
                                      !.result.renewed = Cardinality(renewed),
                                      !.result.failed = Cardinality(failed)])
  /\ isRunning' = FALSE
  /\ UNCHANGED <<requestVars, throttleVars, socketVars, verifyVars, runsStarted>>

\* The query of a check rejects and the flag stays set.
CheckThrows_FlagKept(c) ==
  /\ runs[c].pc \in CheckPcs
  /\ SetRun(c, [runs[c] EXCEPT !.pc = "done", !.outcome = "thrown"])
  /\ UNCHANGED <<requestVars, throttleVars, socketVars, verifyVars, isRunning, shopStatus,
                 subscriptions, runsStarted>>

\* The query of a check rejects: runDailyChecks logs, rethrows, and its
\* finally clears the flag.
CheckThrows(c) ==
  /\ runs[c].pc \in CheckPcs
  /\ SetRun(c, [runs[c] EXCEPT !.pc = "done", !.outcome = "thrown"])
  /\ isRunning' = FALSE
  /\ UNCHANGED <<requestVars, throttleVars, socketVars, verifyVars, shopStatus, subscriptions,
                 runsStarted>>

\* The caller has its answer.
RunRetire(c) ==
  /\ runs[c].pc = "done"
  /\ SetRun(c, IdleRun)
  /\ UNCHANGED <<requestVars, throttleVars, socketVars, verifyVars, isRunning, shopStatus,
                 subscriptions, runsStarted>>

RunStep(c) ==
  \/ RunStart(c)
  \/ CheckExpiring(c)
  \/ \E shopUpdated \in BOOLEAN : CheckExpired(c, shopUpdated)
  \/ \E stripe \in StripeOutcomes : CheckRenewals(c, stripe)
  \/ CheckThrows(c)
  \/ RunRetire(c)

\* The subscription of shop 1 is past its date, about to expire or a week
\* from it.
InitChecks ==
  /\ InitRequests
  /\ clock = AI_RETRY_BASE_DELAY_MS
  /\ conversationRateLimit = [k \in {} |-> 0]
  /\ calls = [c \in Callers |-> IdleCall]
  /\ invocations = {}
  /\ callsIssued = 0
  /\ InitSockets
  /\ InitVerification("verify-me")
  /\ \E expiry \in {"past", "soon", "week"} : InitSubscriptions(expiry)

NextChecks == \E c \in RunCallers : RunStep(c)

SpecChecks == InitChecks /\ [][NextChecks]_vars

\* The daily checks beside webhook deliveries for shop 1, whose
\* subscription may be past its date.
SuspensionDeliveries ==
  {Delivery(b, ExpectedSignature("s3cret", b), TRUE) :
     b \in {Body("src1", <<Msg("c1", "buy 3 units Widget")>>)}}

SuspensionOutcomes == {BackendReturns("Order confirmed")}

SuspensionStep(t) ==
  \/ \E d \in SuspensionDeliveries : WebhookPost(t, d.body, d.signature, d.hasRawBody)
  \/ WGetConversation(t)
  \/ WCreateUserMessage(t)
  \/ WLoadContext(t)
  \/ \E outcome \in SuspensionOutcomes : WGenerate(t, outcome)
  \/ WCreateReply(t)
  \/ WTouch(t)
  \/ WSend(t, TRUE)
  \/ WebhookNext(t)
  \/ XCreateOrder(t)
  \/ XUpdateProduct(t)
  \/ XBackfill(t)
  \/ Retire(t)

NextSuspension ==
  \/ SuspensionStep(1)
  \/ \E c \in RunCallers : RunStep(c)

SpecSuspension == InitChecks /\ [][NextSuspension]_vars


\* ------------------------------------------- what a request has done

\* The handling of one customer message has ended: handleMetaMessage has
\* returned, or the dashboard handler has answered.
Finished(r) ==
  \/ r.pc = "w_msgDone"
  \/ r.kind = "dash" /\ r.pc = "done"

\* The conversation row the handler loaded when the message arrived.
ArrivedPaused(r) == r.conversation.id # 0 /\ r.conversation.pausedForHuman
ArrivedActive(r) == r.conversation.id # 0 /\ ~r.conversation.pausedForHuman

ReplyConfirms(r) ==
  SomeIncluded(ORDER_CONFIRMATION_KEYWORDS, ToLowerCase(Chars(r.aiResponse)))

\* ------------------------------------------------------------- claims

\* C1: a customer message that arrives for a paused conversation never
\* invokes the Response Generator, persists no agent reply, runs no order
\* extraction, and the conversation stays paused (both inbound paths).
C1_PausedIsNeverAnswered ==
  \A t \in Slots :
    LET r == turns[t]
    IN  ArrivedPaused(r) =>
          /\ ~r.aiInvoked
          /\ r.replies = << >>
          /\ ~r.extracted
          /\ conversations[r.conversation.id].pausedForHuman

\* C2: a turn whose customer message classifies as human_request on an
\* active conversation persists the hand-off sentence as its agent message,
\* sets status paused and pausedForHuman, and never calls the Response
\* Generator (both inbound paths; turns without a storage failure).
C2_HumanRequestHandsOff ==
  \A t \in Slots :
    LET r == turns[t]
    IN  (/\ Finished(r)
         /\ ~r.failed
         /\ ArrivedActive(r)
         /\ parseIntent(r.text) = "human_request")
        => /\ r.replies = <<HandoffSentence>>
           /\ r.pausedSet
           /\ conversations[r.conversation.id].status = "paused"
           /\ conversations[r.conversation.id].pausedForHuman
           /\ ~r.aiInvoked

\* C4: after a turn has finished, also one in which a storage call failed,
\* the turn has created an order if and only if it has written the matched
\* product's stock, lowered by the order's quantity.
C4_OrderIffStockDecremented ==
  \A t \in Slots :
    LET r == turns[t]
    IN  Finished(r) =>
          /\ (r.orderId # 0) <=> (r.stockWrite # << >>)
          /\ r.stockWrite # << >> =>
               products[r.stockWrite[1].productId].stock
                 = r.stockWrite[1].before - orders[r.orderId].quantity

\* C5: one customer order request produces at most one order: a shop never
\* has more orders than its conversations hold customer messages naming one
\* of its products.
NamesProduct(shopId, content) ==
  \E i \in DOMAIN products :
     /\ products[i].shopId = shopId
     /\ Includes(ToLowerCase(Chars(content)), ToLowerCase(Chars(products[i].name)))

OrderRequests(shopId) ==
  {i \in DOMAIN messages :
     /\ messages[i].role = "user"
     /\ conversations[messages[i].conversationId].shopId = shopId
     /\ NamesProduct(shopId, messages[i].content)}

OrdersOf(shopId) == {i \in DOMAIN orders : orders[i].shopId = shopId}

C5_OneOrderPerRequest ==
  \A s \in Shops : Cardinality(OrdersOf(s)) <= Cardinality(OrderRequests(s))

\* C8: with a signing secret configured, a delivery whose signature header
\* is missing, or is not the expected signature of the raw body the parser
\* kept, is answered 403 on arrival and no step ever creates or changes a
\* conversation, message, order or product for it; a delivery with the
\* expected signature is handed to the message loop and is answered 200, a
\* replayed one too.
BadSignature(r) ==
  \/ r.signature = << >>
  \/ r.hasRawBody /\ r.signature # ExpectedSignature(appSecret, r.body)

GoodSignature(r) ==
  r.hasRawBody /\ r.signature = ExpectedSignature(appSecret, r.body)

C8_SignatureGate ==
  /\ [](\A t \in Slots :
          LET r == turns[t]
          IN  (r.kind = "webhook" /\ appSecret # "") =>
                /\ BadSignature(r) => r.pc = "done" /\ r.status = 403
                /\ (GoodSignature(r) /\ r.pc = "done") => r.status = 200)
  /\ [][\A t \in Slots :
          /\ (turns[t].kind = "webhook" /\ appSecret # "" /\ BadSignature(turns[t])) =>
               UNCHANGED <<conversations, messages, orders, products, events>>
          /\ (turns[t].kind = "idle" /\ turns'[t].kind = "webhook" /\ appSecret # "") =>
               /\ BadSignature(turns'[t]) =>
                    UNCHANGED <<conversations, messages, orders, products, events>>
               /\ GoodSignature(turns'[t]) =>
                    \/ turns'[t].pc \in {"w_getConv", "w_msgDone"}
                    \/ turns'[t].pc = "done" /\ turns'[t].status = 200]_vars

\* A rightly signed delivery is answered 200 when the table holds two
\* customer messages of its text from the webhook and two replies: the
\* replay was processed like the first delivery.
C8_Witness ==
  \E t \in Slots :
    LET r == turns[t]
    IN  /\ r.kind = "webhook" /\ r.pc = "done" /\ r.status = 200
        /\ appSecret # "" /\ GoodSignature(r)
        /\ Cardinality({i \in DOMAIN messages : messages[i].role = "assistant"}) = 2
        /\ Cardinality({i \in DOMAIN messages :
                          /\ messages[i].role = "user" /\ messages[i].by = 0
                          /\ messages[i].content = r.body.messages[1].text}) = 2

\* C9: order extraction creates an order, writes stock, backfills a customer
\* name and publishes an order event only in a turn whose customer message
\* classifies as order and whose persisted agent reply, lower-cased, holds a
\* confirmation keyword.
OrderEffect ==
  \/ orders' # orders
  \/ products' # products
  \/ \E c \in DOMAIN conversations :
        conversations'[c].customerName # conversations[c].customerName
  \/ /\ Len(events') > Len(events)
     /\ events'[Len(events')].type = "order:created"

C9_OrderOnlyWhenConfirmed ==
  [][OrderEffect =>
       \E t \in Slots :
         LET r == turns[t]
         IN  /\ r.kind # "idle"
             /\ parseIntent(r.text) = "order"
             /\ r.replies = <<r.aiResponse>>
             /\ ReplyConfirms(r)]_vars

\* What the turn asked for, of which product, from what it was given.
MentionedBy(r) ==
  MentionedProducts(r.productsList, RecentUserMessages(r.history),
                    ToLowerCase(Chars(r.aiResponse)))

SufficientStock(r) ==
  /\ MentionedBy(r) # {}
  /\ r.productsList[LeastOf(MentionedBy(r))].stock
       >= RequestedQuantity(RecentUserMessages(r.history))

\* Extraction has run in a turn that names a product in stock and lacks the
\* order intent or the confirming reply, and the turn ended without an order.
C9_Witness ==
  \E t \in Slots :
    LET r == turns[t]
    IN  /\ Finished(r) /\ r.extracted
        /\ SufficientStock(r)
        /\ ~(parseIntent(r.text) = "order" /\ ReplyConfirms(r))
        /\ r.orderId = 0 /\ r.stockWrite = << >>

C3_StockNeverOverdrawn ==
  /\ \A p \in DOMAIN products : products[p].stock >= 0
  /\ \A t \in Slots :
       \A i \in DOMAIN turns[t].stockWrite :
         turns[t].stockWrite[i].quantity <= turns[t].stockWrite[i].before

\* C6: a user of one shop never reads the messages of a conversation of
\* another shop, never causes a message to be appended to one, and never
\* changes the state of one, whatever the endpoint.
Foreign(shopId, id) ==
  id \in DOMAIN conversations /\ conversations[id].shopId # shopId

C6_TenantIsolation ==
  /\ [](/\ (lastCall.op = "read" /\ Foreign(lastCall.shopId, lastCall.conversationId))
            => lastCall.count = 0
        /\ \A i \in DOMAIN messages :
             messages[i].by # 0 => ~Foreign(messages[i].by, messages[i].conversationId))
  /\ [][\A c \in DOMAIN conversations :
          (\/ conversations'[c].status # conversations[c].status
           \/ conversations'[c].pausedForHuman # conversations[c].pausedForHuman)
          => IF ops' # ops THEN lastCall'.shopId = conversations[c].shopId
             ELSE \A t \in Slots : turns[t].kind = "dash" =>
                                     turns[t].shopId = conversations[c].shopId]_vars

\* C7: two generateAIResponse calls for the same conversation id made less
\* than the minimum interval apart, overlapping ones and ones after a failed
\* call included, have their first backend requests at least the minimum
\* interval apart.
Apart(x, y) == IF x >= y THEN x - y ELSE y - x

C7_ThrottleKeepsInterval ==
  \A a, b \in invocations :
    (/\ a.call # b.call
     /\ a.conversationId = b.conversationId
     /\ a.attempt = 1 /\ b.attempt = 1
     /\ Apart(a.issued, b.issued) < AI_MIN_INTERVAL_MS)
    => Apart(a.at, b.at) >= AI_MIN_INTERVAL_MS

\* C11: an order is only ever created for, and stock only ever taken from,
\* a product of the shop's active catalog: no order names a product whose
\* active flag is false and such a product keeps its stock.
C11_OnlyActiveProducts ==
  /\ \A i \in DOMAIN orders : products[orders[i].productId].active
  /\ \A i \in DOMAIN products :
       ~products[i].active => products[i].stock = InitStock

\* The customer message the turn stored directly follows, in its
\* conversation, the resume notice of an operator of the conversation's
\* shop: it is the first customer message after a resume.
AfterResume(r) ==
  LET u == r.userMessage
      earlier == {i \in DOMAIN messages :
                    i < u /\ messages[i].conversationId = r.conversation.id}
  IN  /\ u # 0
      /\ earlier # {}
      /\ messages[GreatestOf(earlier)].content = ResumeNotice
      /\ messages[GreatestOf(earlier)].by = r.conversation.shopId

\* The resume request just served leaves the conversation it names, when
\* the caller's shop has it and it was paused, active and not paused.
ResumeReactivates ==
  (ops' # ops /\ lastCall'.op = "resume")
    => LET id == lastCall'.conversationId
       IN  getConversation(id, lastCall'.shopId).pausedForHuman
             => /\ conversations'[id].status = "active"
                /\ ~conversations'[id].pausedForHuman

PausePauses ==
  (ops' # ops /\ lastCall'.op = "pause")
    => LET id == lastCall'.conversationId
           before == getConversation(id, lastCall'.shopId)
       IN  (before.id # 0 /\ ~before.pausedForHuman)
             => /\ conversations'[id].status = "paused"
                /\ conversations'[id].pausedForHuman
                /\ messages' = Append(messages,
                                      [conversationId |-> id, role |-> "assistant",
                                       content |-> PauseNotice,
                                       by |-> lastCall'.shopId])

stored == <<conversations, messages, products, orders, events>>

\* The send-message handler has just looked its conversation up (the lookup
\* itself did not fail): without a row for the caller's shop it answers 404,
\* with a paused row 400, and nothing stored or published has changed.
RefusalLeavesState(t) ==
  (turns[t].pc = "d_getConv" /\ turns'[t] # turns[t] /\ ~turns'[t].failed)
    => LET conversation == getConversation(turns[t].conversationId, turns[t].shopId)
           refused(status) == /\ turns'[t].pc = "done"
                              /\ turns'[t].status = status
                              /\ UNCHANGED stored
       IN  /\ conversation.id = 0 => refused(404)
           /\ (conversation.id # 0 /\ conversation.pausedForHuman) => refused(400)

\* A send-message request answered 404 or 400 has called no generator, has
\* stored no message and has run no order extraction.
RefusedDidNothing(r) ==
  (r.kind = "dash" /\ r.status \in {400, 404})
    => /\ ~r.aiInvoked
       /\ r.userMessage = 0
       /\ r.replies = << >>
       /\ ~r.pausedSet
       /\ ~r.extracted
       /\ r.orderId = 0
       /\ r.stockWrite = << >>
       /\ ~r.orderEvent

\* C14: the dashboard send-message call answers 404 when the caller's shop
\* has no such conversation and 400 when the conversation is paused, and in
\* both cases changes nothing: no message stored, no event published, no
\* generator call, no order.
C14_RefusedSendChangesNothing ==
  /\ [][\A t \in Slots : RefusalLeavesState(t)]_vars
  /\ [](\A t \in Slots : RefusedDidNothing(turns[t]))

\* A send-message request for a paused conversation has been answered 400.
C14_Witness ==
  \E t \in Slots :
    LET r == turns[t]
    IN  /\ r.kind = "dash"
        /\ r.pc = "done"
        /\ r.status = 400
        /\ getConversation(r.conversationId, r.shopId).pausedForHuman

\* The backend requests made for a call of generateAIResponse.
InvocationsOf(r) == {i \in invocations : i.call = r.call}

\* C15: generateAIResponse never rejects and never resolves to an empty or
\* white-space-only string: when the backend failed all 3 attempts the value
\* is the fixed apology, and when the backend answered with an empty or
\* white-space-only text it is the fixed "trouble responding" sentence.
C15_NeverRaisesNeverBlank ==
  \A c \in Callers :
    LET r == calls[c]
    IN  r.pc = "returned" =>
          /\ ~r.rejected
          /\ Trim(r.value) # << >>
          /\ (~r.answered /\ Cardinality(InvocationsOf(r)) = 3)
               => r.value = Chars(ApologySentence)
          /\ (r.answered /\ \A i \in DOMAIN r.aiText : IsSpace(r.aiText[i]))
               => r.value = Chars(TroubleSentence)

\* A call whose three backend requests all failed has resolved to the
\* apology.
C15_Witness ==
  \E c \in Callers :
    /\ calls[c].pc = "returned"
    /\ ~calls[c].answered
    /\ Cardinality(InvocationsOf(calls[c])) = 3
    /\ calls[c].value = Chars(ApologySentence)

\* The backend failed the first two attempts of the call and answered the
\* third.
ThirdAttemptAnswered(r) ==
  /\ r.pc = "returned"
  /\ r.answered
  /\ r.waits = <<AI_RETRY_BASE_DELAY_MS, 2 * AI_RETRY_BASE_DELAY_MS>>

\* C16 as stated: when the backend fails its first two attempts and answers
\* the third, generateAIResponse resolves, without rejecting, to the third
\* attempt's text, and the backend was called exactly 3 times.
C16_ThirdAttemptTextReturned ==
  \A c \in Callers :
    LET r == calls[c]
    IN  ThirdAttemptAnswered(r) =>
          /\ ~r.rejected
          /\ r.value = r.aiText
          /\ Cardinality(InvocationsOf(r)) = 3

\* C16 amended: when the backend fails its first two attempts and answers
\* the third, generateAIResponse resolves, without rejecting, to the third
\* attempt's text with the white space at its ends removed, or to the fixed
\* "trouble responding" sentence when nothing is left, and the backend was
\* called exactly 3 times.
C16_ThirdAttemptTrimmedTextReturned ==
  \A c \in Callers :
    LET r == calls[c]
    IN  ThirdAttemptAnswered(r) =>
          /\ ~r.rejected
          /\ r.value = IF Trim(r.aiText) = << >> THEN Chars(TroubleSentence)
                       ELSE Trim(r.aiText)
          /\ Cardinality(InvocationsOf(r)) = 3

\* A third attempt answered "Order confirmed" and the call resolved to it.
C16_Witness ==
  \E c \in Callers :
    /\ ThirdAttemptAnswered(calls[c])
    /\ calls[c].aiText = Chars("Order confirmed")
    /\ calls[c].value = Chars("Order confirmed")
    /\ Cardinality(InvocationsOf(calls[c])) = 3

\* C17: a call whose backend fails every time makes 3 attempts in all and
\* has waited 500, 1000 and 2000 ms when it gives up.
C17_BackoffWaits ==
  \A c \in Callers :
    LET r == calls[c]
    IN  (r.pc = "returned" /\ ~r.answered) =>
          /\ Cardinality(InvocationsOf(r)) = 3
          /\ r.waits = <<500, 1000, 2000>>

\* C18: the per-conversation rate-limit cache is bounded: whatever calls
\* were made over whatever conversation ids, once pruning has run it holds
\* at most AI_CONVERSATION_CACHE_LIMIT entries.
C18_CacheBounded ==
  Cardinality(DOMAIN conversationRateLimit) <= AI_CONVERSATION_CACHE_LIMIT

\* The reply of the turn is in the messages of its conversation.
ReplyPersisted(r) ==
  /\ r.replies = <<r.aiResponse>>
  /\ \E i \in DOMAIN messages :
       /\ messages[i].conversationId = r.conversation.id
       /\ messages[i].role = "assistant"
       /\ messages[i].content = r.aiResponse

\* C19: when a storage call inside order extraction (create order, write
\* stock, backfill name) fails, the turn is not aborted: its agent reply is
\* already persisted, the handler goes on after the extraction, and when
\* nothing fails after it the dashboard caller gets the success response.
C19_ExtractionFailureKeepsTurn ==
  \A t \in Slots :
    LET r == turns[t]
    IN  r.failedAt \in ExtractionPcs =>
          /\ ReplyPersisted(r)
          /\ r.pc \in {AfterExtraction(r), "done"}
          /\ (r.kind = "dash" /\ r.pc = "done") => r.status = 200

\* A dashboard turn whose order was stored and whose stock write failed has
\* been answered 200.
C19_Witness ==
  \E t \in Slots :
    LET r == turns[t]
    IN  /\ r.kind = "dash" /\ r.pc = "done" /\ r.status = 200
        /\ r.failedAt = "x_updateProduct"
        /\ r.orderId # 0
        /\ ReplyPersisted(r)

\* The message the loop of the delivery stands at is a null.
AtNullMessage(r) ==
  /\ r.idx <= Len(r.body.messages)
  /\ r.body.messages[r.idx] = NullMessage

\* A failure while a message of a delivery is handled ends that message and
\* nothing else: the storage call that rejected leaves the handler at the
\* end of handleMetaMessage or after the extraction, never at an answer.
MessageFailureIsContained(t) ==
  (turns[t].kind = "webhook" /\ turns'[t].failed /\ ~turns[t].failed)
    => turns'[t].pc \in {"w_msgDone", AfterExtraction(turns[t])}

\* From the end of a message, however it ended, the loop goes on: to the
\* handling of a later message of the batch, or to the answer.
LoopGoesOn(t) ==
  (turns[t].pc = "w_msgDone" /\ turns'[t] # turns[t])
    => /\ turns'[t].idx > turns[t].idx
       /\ turns'[t].body = turns[t].body
       /\ turns'[t].pc \in {"w_getConv", "w_msgDone", "done"}
       /\ turns'[t].pc = "done" =>
            \/ turns'[t].status = 200 /\ turns'[t].idx > Len(turns[t].body.messages)
            \/ turns'[t].status = 500 /\ AtNullMessage(turns'[t])

\* C20: a verified webhook POST is answered 200 when the loop reaches the
\* end of the batch, whatever failed while a message was handled (storage,
\* generation, outbound delivery, order extraction); a failure in one
\* message does not keep the loop from the next one; 500 is answered only
\* for an exception outside the handling of a message.
C20_BatchAnswered200 ==
  /\ [](\A t \in Slots :
          LET r == turns[t]
          IN  (r.kind = "webhook" /\ r.pc = "done" /\ GoodSignature(r)) =>
                /\ r.status \in {200, 500}
                /\ r.status = 500 <=> AtNullMessage(r)
                /\ r.idx > Len(r.body.messages) => r.status = 200)
  /\ [][\A t \in Slots : MessageFailureIsContained(t) /\ LoopGoesOn(t)]_vars

\* A delivery of two messages has been answered 200 with the second message
\* stored and answered although the first was lost to a storage failure.
C20_Witness ==
  \E t \in Slots :
    LET r == turns[t]
        stored_texts == {messages[i].content :
                           i \in {j \in DOMAIN messages : messages[j].role = "user"}}
    IN  /\ r.kind = "webhook" /\ r.pc = "done" /\ r.status = 200
        /\ GoodSignature(r)
        /\ Len(r.body.messages) = 2
        /\ r.body.messages[1].text = "buy widget"
        /\ "buy widget" \notin stored_texts
        /\ "hi widget" \in stored_texts
        /\ \E i \in DOMAIN messages : messages[i].role = "assistant"

\* C21: an inbound message whose text is empty after trimming is a no-op on
\* both inbound paths: no conversation is created, no message is stored,
\* the Response Generator is not called and nothing else changes.
C21_EmptyTextIsNoOp ==
  \A t \in Slots :
    LET r == turns[t]
    IN  (r.kind # "idle" /\ Trim(Chars(r.text)) = << >>) =>
          /\ r.userMessage = 0
          /\ ~r.aiInvoked
          /\ r.replies = << >>
          /\ ~r.extracted
          /\ r.kind = "webhook" => r.conversation = NoConversation

\* The turn of the worked example: the first customer message of the
\* conversation is the example sentence, Widget was loaded with 5 in stock
\* and the reply is "processing your order".
ExampleTurn(r) ==
  /\ Finished(r)
  /\ r.text = "I want to order 3 widgets, name is Sara, phone is 555-1234"
  /\ r.aiResponse = "processing your order"
  /\ Cardinality({i \in DOMAIN messages : messages[i].role = "user"}) = 1
  /\ \E i \in DOMAIN r.productsList :
       /\ r.productsList[i].name = "Widget"
       /\ r.productsList[i].active
       /\ r.productsList[i].stock = 5

\* C22: with an active Widget of stock 5, the customer text "I want to
\* order 3 widgets, name is Sara, phone is 555-1234" and a reply holding
\* "processing your order", the turn creates one order of quantity 3 for
\* Sara, 555-1234, with revenue 3 x price and profit revenue - 3 x cost, and
\* Widget's stock becomes 2.
C22_WorkedExample ==
  \A t \in Slots :
    LET r == turns[t]
    IN  ExampleTurn(r) =>
          /\ Len(orders) = 1
          /\ r.orderId = 1
          /\ orders[1].productName = "Widget"
          /\ orders[1].quantity = 3
          /\ orders[1].customerName = <<"S", "a", "r", "a">>
          /\ orders[1].customerPhone = <<"5", "5", "5", "-", "1", "2", "3", "4">>
          /\ orders[1].revenue = 3 * orders[1].price
          /\ orders[1].profit = orders[1].revenue - 3 * orders[1].cost
          /\ products[orders[1].productId].stock = 2

\* C23: every order the heuristic created has revenue = unit price x
\* quantity and profit = revenue - unit cost x quantity, its unit price,
\* unit cost and product name are those of the matched product, its
\* quantity is at least 1 and its status is pending.
C23_OrderArithmetic ==
  \A i \in DOMAIN orders :
    LET order == orders[i]
        product == products[order.productId]
    IN  /\ order.revenue = order.price * order.quantity
        /\ order.profit = order.revenue - order.cost * order.quantity
        /\ order.price = product.price
        /\ order.cost = product.cost
        /\ order.productName = product.name
        /\ order.quantity >= 1
        /\ order.status = "pending"

\* The tenant events a socket was sent (the welcome is not one).
TenantEvents(s) == {e \in sockets[s].inbox : e.type # "connected"}

\* The registry holds authenticated sockets under their own shop only, holds
\* no socket whose close event was handled, and has no empty set.
RegistrySound ==
  /\ \A k \in DOMAIN clients :
       /\ clients[k] # {}
       /\ \A s \in clients[k] :
            /\ sockets[s].answer = "101"
            /\ sockets[s].userId # 0
            /\ sockets[s].shopId = k
            /\ sockets[s].readyState # "CLOSED"
  /\ \A s \in SocketIds :
       sockets[s].answer \in {"401", "ignored"} =>
         /\ \A k \in DOMAIN clients : s \notin clients[k]
         /\ sockets[s].inbox = {}

\* An event is sent only to sockets that are open and authenticated for the
\* event's shop, and a broadcast reaches every such socket.
DeliveryScoped ==
  /\ \A s \in SocketIds :
       \A e \in TenantEvents(s)' \ TenantEvents(s) :
          /\ sockets[s].readyState = "OPEN"
          /\ sockets[s].userId # 0
          /\ e.shopId = sockets[s].shopId
  /\ published' # published =>
       \E shopId \in Shops :
         \A s \in SocketIds :
           (sockets[s].readyState = "OPEN" /\ sockets[s].shopId = shopId)
             <=> TenantEvents(s)' # TenantEvents(s)

\* C24: an event published for a shop is delivered only to sockets that
\* authenticated as a user of that shop and are still open; no socket ever
\* holds an event of another shop; an unauthenticated upgrade never enters
\* the registry; after a socket's close event it is in no registry set and
\* no shop key maps to an empty set.
C24_EventsStayInTenant ==
  /\ [](RegistrySound /\ \A s \in SocketIds :
                           \A e \in TenantEvents(s) : e.shopId = sockets[s].shopId)
  /\ [][DeliveryScoped]_vars

\* Sockets of both shops were open while an event of shop 1 was broadcast:
\* the socket of shop 1 holds it, the socket of shop 2 holds nothing, and
\* an upgrade without a session was refused.
C24_Witness ==
  /\ \E s \in SocketIds : sockets[s].shopId = 1 /\ TenantEvents(s) # {}
  /\ \E s \in SocketIds :
       /\ sockets[s].shopId = 2
       /\ sockets[s].readyState = "OPEN"
       /\ TenantEvents(s) = {}
  /\ \E s \in SocketIds : sockets[s].answer = "401"
  /\ published = 1

\* The rows of the agent replies the turn stored: the assistant messages of
\* its conversation after its customer message.
ReplyRows(r) ==
  {i \in DOMAIN messages :
     /\ i > r.userMessage
     /\ messages[i].conversationId = r.conversation.id
     /\ messages[i].role = "assistant"}

Published(shopId, type, ref) ==
  \E e \in DOMAIN events :
     events[e] = [shopId |-> shopId, type |-> type, ref |-> ref]

\* C25: every turn that has stored an agent reply, on either path, has
\* published to its shop a new-message event for that reply by the time it
\* ends, and an order-created event when it created an order.
C25_ReplyAndOrderPublished ==
  \A t \in Slots :
    LET r == turns[t]
    IN  (Finished(r) /\ r.replies # << >>) =>
          /\ \A i \in ReplyRows(r) : Published(r.shopId, "message:received", i)
          /\ r.orderId # 0 => Published(r.shopId, "order:created", r.orderId)

\* C26: within a webhook turn the customer's message is stored before the
\* generator is called, the generator is called before the reply is stored,
\* the reply is stored before order extraction runs, and the reply is handed
\* to the provider only when order extraction is over (its order stored, its
\* stock written and its event published).
C26_WebhookStepOrder ==
  \A t \in Slots :
    LET r == turns[t]
    IN  r.kind = "webhook" =>
          /\ r.aiInvoked => r.userMessage # 0
          /\ r.replies # << >> => r.aiInvoked
          /\ r.extracted => r.replies # << >>
          /\ r.outbound # "none" => (r.extracted /\ r.pc \notin ExtractionPcs)

\* C27: when the delivery of the reply to the provider fails, nothing is
\* thrown to handleMetaMessage: the turn is not ended at the send, its reply
\* stays in the messages of its conversation, and order extraction is entered.
C27_DeliveryFailureSwallowed ==
  \A t \in Slots :
    LET r == turns[t]
    IN  (r.kind = "webhook" /\ r.outbound = "failed") =>
          /\ r.failedAt # "w_send"
          /\ ReplyPersisted(r)
          /\ r.extracted

\* A webhook turn whose delivery failed has gone on to create an order.
C27_Witness ==
  \E t \in Slots :
    LET r == turns[t]
    IN  /\ r.kind = "webhook" /\ r.outbound = "failed"
        /\ r.orderId # 0
        /\ \E o \in DOMAIN orders : orders[o].id = r.orderId

\* The last verification request was entitled to the challenge.
VerificationPasses ==
  /\ metaVerifyToken # ""
  /\ verification.mode = Str("subscribe")
  /\ verification.token = Str(metaVerifyToken)

VerificationAnswered ==
  verification.status # 0 =>
    /\ verification.status = 200 <=> VerificationPasses
    /\ verification.status = 200 =>
         /\ verification.challenge.type = "string" =>
              verification.body = [type |-> "text", s |-> verification.challenge.s]
         /\ verification.challenge = Undefined => verification.body.type = "empty"
    /\ (metaVerifyToken # "" /\ ~VerificationPasses) => verification.status = 403
    /\ metaVerifyToken = "" => verification.status = 500

\* C28: the verification GET answers 200 with the challenge as it came
\* exactly when a verify token is configured, mode is "subscribe" and the
\* token equals the configured one; 403 for every other request when a token
\* is configured; 500 when none is; and answering it changes nothing else.
C28_VerificationGet ==
  /\ [] VerificationAnswered
  /\ [][verification' # verification =>
          UNCHANGED <<requestVars, throttleVars, socketVars, automationVars, metaVerifyToken>>]_vars

\* A verification was answered with its challenge while messages were stored.
C28_Witness ==
  /\ verification.status = 200
  /\ verification.body = [type |-> "text", s |-> "1158201444"]
  /\ messages # << >>

\* The text holds, in any letter case, a keyword of the family given by its
\* English and its Arabic list.
Mentions(text, english, arabic) ==
  \E k \in Range(english) \cup Range(arabic) :
     Includes(ToLowerCase(Chars(text)), k)

MentionsHuman(text) == Mentions(text, englishHumanKeywords, arabicHumanKeywords)

MentionsOrder(text) == Mentions(text, englishOrderKeywords, arabicOrderKeywords)

MentionsAppointment(text) ==
  Mentions(text, englishAppointmentKeywords, arabicAppointmentKeywords)

Classified(r) == r.intent # ""

\* C29: the intent of a message depends on its text alone (two requests with
\* the same text get the same intent); a text with a human-request keyword is
\* a human_request whatever else it holds, one with an order keyword and no
\* human-request keyword is an order, one with only appointment keywords is
\* an appointment, and one with no keyword is general.
C29_IntentPriority ==
  \A t \in Slots :
    LET r == turns[t]
    IN  Classified(r) =>
          /\ MentionsHuman(r.text) => r.intent = "human_request"
          /\ (~MentionsHuman(r.text) /\ MentionsOrder(r.text)) => r.intent = "order"
          /\ (~MentionsHuman(r.text) /\ ~MentionsOrder(r.text)
                /\ MentionsAppointment(r.text)) => r.intent = "appointment"
          /\ (~MentionsHuman(r.text) /\ ~MentionsOrder(r.text)
                /\ ~MentionsAppointment(r.text)) => r.intent = "general"
          /\ \A u \in Slots :
               (Classified(turns[u]) /\ turns[u].text = r.text) =>
                 turns[u].intent = r.intent

\* The sentence with an order keyword and a human-request keyword was
\* classified while a sentence with an order and an appointment keyword was.
C29_Witness ==
  \E t, u \in Slots :
    /\ turns[t].text = "I want to order but can I talk to a human"
    /\ turns[t].intent = "human_request"
    /\ MentionsOrder(turns[t].text)
    /\ turns[u].text = "buy and book"
    /\ turns[u].intent = "order"
    /\ MentionsAppointment(turns[u].text)

\* The conversations of the customer in the shop, by id (ids are given in
\* the order of creation).
PairIds(customerId, shopId) ==
  {i \in DOMAIN conversations :
     /\ conversations[i].customerId = customerId
     /\ conversations[i].shopId = shopId}

\* The webhook turn in slot t takes the step.
WebhookActs(t) == turns[t].kind = "webhook" /\ turns'[t] # turns[t]

\* C30: every message a webhook turn appends (the customer's and the reply)
\* goes to the conversation of its (shop, customer) pair that was created
\* last, and the turn inserts a conversation, active and not paused for a
\* human, only when the pair has none.
C30_LatestConversationUsed ==
  [][\A t \in Slots :
       LET r == turns[t]
           ids == PairIds(r.customerId, r.shopId)
       IN  WebhookActs(t) =>
             /\ Len(messages') > Len(messages) =>
                  /\ messages'[Len(messages')].conversationId \in ids
                  /\ \A i \in ids : i <= messages'[Len(messages')].conversationId
             /\ Len(conversations') > Len(conversations) =>
                  /\ ids = {}
                  /\ conversations'[Len(conversations')].status = "active"
                  /\ ~conversations'[Len(conversations')].pausedForHuman]_vars

\* C31: whatever the interleaving of webhook deliveries, no customer has more
\* than one conversation in a shop.
C31_OneConversationPerPair ==
  \A i, j \in DOMAIN conversations :
    (/\ conversations[i].customerId = conversations[j].customerId
     /\ conversations[i].shopId = conversations[j].shopId) => i = j

\* The sum of the quantities of the first n orders that are for product p.
RECURSIVE QuantityOrdered(_, _)
QuantityOrdered(p, n) ==
  IF n = 0 THEN 0
  ELSE QuantityOrdered(p, n - 1)
         + (IF orders[n].productId = p THEN orders[n].quantity ELSE 0)

\* No turn stands between the insert of its order and its stock write.
NoStockWritePending == \A t \in Slots : turns[t].pc # "x_updateProduct"

\* C32: however the turns interleave, the quantities ordered of a product
\* never add up to more than its initial stock, and once every created order
\* has had its stock write they add up to the initial stock minus the
\* current stock.
C32_NoOverselling ==
  \A p \in DOMAIN products :
    /\ QuantityOrdered(p, Len(orders)) <= InitStock
    /\ NoStockWritePending =>
         QuantityOrdered(p, Len(orders)) = InitStock - products[p].stock

\* C33: every conversation is active or paused, never archived, and is
\* paused for a human exactly when its status is paused, after any sequence
\* of conversation creations, webhook and dashboard turns, operator pauses
\* and operator resumes.
C33_StatusAndFlagAgree ==
  \A i \in DOMAIN conversations :
    /\ conversations[i].status \in {"active", "paused"}
    /\ conversations[i].pausedForHuman <=> conversations[i].status = "paused"

\* The rows of the message a webhook turn is handling: its customer message
\* is the row the turn stored, with the text the payload has at idx, and its
\* reply, once stored, is the very next row of the same conversation.
RowsOfMessage(r) ==
  r.userMessage # 0 =>
    /\ r.text = r.body.messages[r.idx].text
    /\ r.userMessage \in DOMAIN messages
    /\ messages[r.userMessage].role = "user"
    /\ messages[r.userMessage].content = r.text
    /\ messages[r.userMessage].conversationId = r.conversation.id
    /\ r.replies # << >> =>
         /\ r.userMessage + 1 \in DOMAIN messages
         /\ messages[r.userMessage + 1].role = "assistant"
         /\ messages[r.userMessage + 1].content = r.aiResponse
         /\ messages[r.userMessage + 1].conversationId = r.conversation.id

\* Every agent reply directly follows a customer message of its conversation.
ReplyFollowsMessage ==
  \A i \in DOMAIN messages :
    messages[i].role = "assistant" =>
      /\ i > 1
      /\ messages[i - 1].role = "user"
      /\ messages[i - 1].conversationId = messages[i].conversationId

\* Within one POST the loop moves forward only, and only from the end of the
\* handling of a message.
OneAfterAnother(t) ==
  (/\ turns[t].kind = "webhook" /\ turns'[t].kind = "webhook"
   /\ turns[t].idx > 0 /\ turns'[t].idx # turns[t].idx)
    => /\ turns'[t].idx > turns[t].idx
       /\ turns'[t].body = turns[t].body
       /\ turns[t].pc = "w_msgDone"

\* C34: within one webhook POST the messages are handled one after another
\* in payload order: the loop goes to a later message only when the handling
\* of the current one has returned, so the customer message and the reply of
\* a message are stored before the customer message of the next; with one
\* turn at a time each reply is the row right after the customer message it
\* answers.
C34_BatchInPayloadOrder ==
  /\ [](ReplyFollowsMessage
         /\ \A t \in Slots : turns[t].kind = "webhook" => RowsOfMessage(turns[t]))
  /\ [][\A t \in Slots : OneAfterAnother(t)]_vars

\* A delivery of two messages is answered 200 with the four rows stored in
\* the order message, reply, message, reply.
C34_Witness ==
  \E t \in Slots :
    LET r == turns[t]
    IN  /\ r.kind = "webhook" /\ r.pc = "done" /\ r.status = 200
        /\ Len(r.body.messages) = 2
        /\ Len(messages) = 4
        /\ messages[1].role = "user" /\ messages[1].content = r.body.messages[1].text
        /\ messages[2].role = "assistant"
        /\ messages[3].role = "user" /\ messages[3].content = r.body.messages[2].text
        /\ messages[4].role = "assistant"

\* The shop of the operator has the conversation of the last request.
OwnConversation(shopId, id) ==
  id \in DOMAIN conversations /\ conversations[id].shopId = shopId

\* A send-message request is answered: 404 and nothing done when the shop
\* has no such conversation, 400 and nothing done when it is not paused for
\* a human, else the message is stored as an assistant row of the
\* conversation and one event for that row is published to the shop.
SendOutcome ==
  (ops' # ops /\ lastCall'.op = "send")
    => LET id == lastCall'.conversationId
           shopId == lastCall'.shopId
           own == OwnConversation(shopId, id)
           paused == own /\ conversations[id].pausedForHuman
       IN  /\ conversations' = conversations
           /\ ~own => lastCall'.status = 404
           /\ (own /\ ~paused) => lastCall'.status = 400
           /\ ~paused => (messages' = messages /\ events' = events)
           /\ paused =>
                /\ lastCall'.status = 200
                /\ Len(messages') = Len(messages) + 1
                /\ SubSeq(messages', 1, Len(messages)) = messages
                /\ messages'[Len(messages')].conversationId = id
                /\ messages'[Len(messages')].role = "assistant"
                /\ events' = Append(events, [shopId |-> shopId,
                                             type |-> "message:received",
                                             ref |-> Len(messages')])

C36_SuspendedShopIsSilent ==
  \A t \in Slots :
    LET r == turns[t]
    IN  (r.kind = "webhook" /\ r.arrivedSuspended) =>
          /\ ~r.aiInvoked
          /\ r.replies = << >>
          /\ r.orderId = 0

\* The callers whose call of runDailyChecks is performing its checks.
Checking == {c \in RunCallers : runs[c].pc \in CheckPcs}

\* A call that starts while another is in progress ends on the spot with
\* the zero counts, having performed no check and changed nothing; a call
\* that starts while none is in progress begins its checks.
StartOutcome(c) ==
  (runs[c].pc = "idle" /\ runs'[c].pc # "idle")
    => IF Checking # {}
       THEN /\ runs'[c] = [pc |-> "done", result |-> ZeroCounts, checks |-> 0,
                           outcome |-> "returned"]
            /\ UNCHANGED <<isRunning, shopStatus, subscriptions>>
       ELSE runs'[c].pc \in CheckPcs

\* C37: the checks of runDailyChecks never run twice at the same time: at
\* most one call is performing checks, the running flag is set exactly while
\* one is (so it is cleared when a run ends, by returning or by throwing),
\* a call started meanwhile performs no check and returns the zero counts,
\* and a call started when none is in progress runs.
C37_DailyChecksNeverOverlap ==
  /\ [](/\ Cardinality(Checking) <= 1
        /\ isRunning <=> Checking # {})
  /\ [][\A c \in RunCallers : StartOutcome(c)]_vars

\* A run has thrown, a call made during a run was turned away with the zero
\* counts, and a later call is performing its checks.
C37_Witness ==
  \E a, b, c \in RunCallers :
    /\ runs[a].pc = "done" /\ runs[a].outcome = "thrown"
    /\ runs[b].pc = "done" /\ runs[b].outcome = "returned"
    /\ runs[b].checks = 0 /\ runs[b].result = ZeroCounts
    /\ runs[c].pc \in CheckPcs

\* The step is a tick of the heartbeat that pinged or terminated a socket.
TickTaken ==
  \E s \in SocketIds :
    \/ sockets'[s].pinged /\ ~sockets[s].pinged
    \/ sockets'[s].terminated /\ ~sockets[s].terminated

\* At a tick a client with an unanswered ping is terminated and a client
\* with none is pinged and left connected; the heartbeat terminates a socket
\* at no other moment.
HeartbeatRule(s) ==
  /\ (TickTaken /\ s \in WssClients /\ sockets[s].pinged) =>
       /\ sockets'[s].terminated
       /\ sockets'[s].readyState # "OPEN"
  /\ (TickTaken /\ s \in WssClients /\ ~sockets[s].pinged) =>
       /\ sockets'[s].terminated = sockets[s].terminated
       /\ sockets'[s].readyState = sockets[s].readyState
       /\ sockets'[s].pinged
  /\ (sockets'[s].terminated /\ ~sockets[s].terminated) =>
       (TickTaken /\ sockets[s].pinged)

\* C38: a connected socket that has not answered the ping of a heartbeat
\* tick by the next tick is terminated at that tick, and a socket that has
\* answered every ping by the next tick is never terminated by the
\* heartbeat.
C38_HeartbeatTerminatesSilent == [][\A s \in SocketIds : HeartbeatRule(s)]_vars

\* Socket 2, connected after socket 1, has been terminated by the heartbeat
\* while socket 1, which answered, is still open.
C38_Witness ==
  /\ sockets[2].terminated
  /\ sockets[1].readyState = "OPEN"
  /\ ~sockets[1].terminated
  /\ sockets[1].answer = "101"

====
